---------------------------- MODULE Spec2Model ----------------------------
(***************************************************************************)
(* A model of the EEG analysis pipeline of src/lib/advancedEEGAnalysis.ts  *)
(* (calculatePSD, bandPower, approximateEntropy, detectSpikeFrequency,     *)
(* analyzeChannelSpectrum, calculateConnectivity,                          *)
(* calculateSchizophreniaRisk, performAdvancedAnalysis).                   *)
(*                                                                         *)
(* Numbers.  A JavaScript number is modelled as an extended rational       *)
(* <<n, d>> in lowest terms with d >= 0:                                   *)
(*     d > 0            the finite value n/d                               *)
(*     <<1, 0>>         +Infinity                                          *)
(*     <<-1, 0>>        -Infinity                                          *)
(*     <<0, 0>>         NaN                                                *)
(* Division by zero, 0/0, Infinity - Infinity, 0 * Infinity and the NaN    *)
(* rules of comparison, Math.min and Math.max follow IEEE 754.  Rounding,  *)
(* overflow of finite values and the sign of zero are not modelled.        *)
(***************************************************************************)
EXTENDS Integers, Sequences, FiniteSets, TLC

---------------------------------------------------------------------------
(* Extended rational arithmetic (the semantics of the JavaScript operators *)
(* +, -, *, /, <, >, Math.min, Math.max, Math.abs on numbers).             *)

\* Op applied to the values of its arguments, each evaluated once (an operator
\* argument is otherwise evaluated anew at every use, which compounds through
\* nested arithmetic when TLC evaluates ENABLED).
Strict1(Op(_), a) == CHOOSE r \in {Op(x) : x \in {a}} : TRUE

Strict2(Op(_, _), a, b) == CHOOSE r \in {Op(x, y) : x \in {a}, y \in {b}} : TRUE

Strict3(Op(_, _, _), a, b, c) ==
    CHOOSE r \in {Op(x, y, z) : x \in {a}, y \in {b}, z \in {c}} : TRUE

Abs(i) == IF i < 0 THEN -i ELSE i

Sign(i) == IF i < 0 THEN -1 ELSE IF i > 0 THEN 1 ELSE 0

RECURSIVE GCD(_, _)
GCDV(a, b) == IF b = 0 THEN a ELSE GCD(b, a % b)

GCD(a, b) == Strict2(GCDV, a, b)

NormV(n, d) ==
    IF d = 0 THEN <<Sign(n), 0>>
    ELSE LET g == GCD(Abs(n), Abs(d))
             s == IF d < 0 THEN -1 ELSE 1
         IN  <<s * (n \div g), s * (d \div g)>>

\* n/d in lowest terms.
Norm(n, d) == Strict2(NormV, n, d)

Q(n, d) == Norm(n, d)

I(n) == <<n, 1>>

NaN == <<0, 0>>

PosInf == <<1, 0>>

NegInf == <<-1, 0>>

IsNaN(a) == a = NaN

IsFinite(a) == a[2] > 0

NegV(a) == <<-a[1], a[2]>>

Neg(a) == Strict1(NegV, a)

AddV(a, b) ==
    IF IsNaN(a) \/ IsNaN(b) THEN NaN
    ELSE IF a[2] = 0 THEN (IF b[2] = 0 /\ b[1] # a[1] THEN NaN ELSE a)
    ELSE IF b[2] = 0 THEN b
    ELSE LET g == GCD(a[2], b[2])
         IN  Norm(a[1] * (b[2] \div g) + b[1] * (a[2] \div g), a[2] * (b[2] \div g))

Add(a, b) == Strict2(AddV, a, b)

Sub(a, b) == Add(a, Neg(b))

MulV(a, b) ==
    IF IsNaN(a) \/ IsNaN(b) THEN NaN
    ELSE IF a[2] = 0 \/ b[2] = 0 THEN <<Sign(a[1]) * Sign(b[1]), 0>>
    ELSE LET g1 == GCD(Abs(a[1]), b[2])
             g2 == GCD(Abs(b[1]), a[2])
         IN  Norm((a[1] \div g1) * (b[1] \div g2), (a[2] \div g2) * (b[2] \div g1))

Mul(a, b) == Strict2(MulV, a, b)

RecipV(a) ==
    IF IsNaN(a) THEN NaN
    ELSE IF a[2] = 0 THEN <<0, 1>>
    ELSE IF a[1] = 0 THEN PosInf
    ELSE IF a[1] < 0 THEN <<-a[2], -a[1]>>
    ELSE <<a[2], a[1]>>

\* 1/a: 1/0 is +Infinity, 1/Infinity is 0, 1/NaN is NaN.
Recip(a) == Strict1(RecipV, a)

Div(a, b) == Mul(a, Recip(b))

LtV(a, b) ==
    IF IsNaN(a) \/ IsNaN(b) THEN FALSE
    ELSE IF a[2] = 0 /\ b[2] = 0 THEN a[1] < b[1]
    ELSE IF a[2] = 0 THEN a[1] < 0
    ELSE IF b[2] = 0 THEN b[1] > 0
    ELSE a[1] * b[2] < b[1] * a[2]

\* a < b; false when either is NaN.
Lt(a, b) == Strict2(LtV, a, b)

Gt(a, b) == Lt(b, a)

LeV(a, b) == ~IsNaN(a) /\ ~IsNaN(b) /\ ~Lt(b, a)

Le(a, b) == Strict2(LeV, a, b)

Ge(a, b) == Le(b, a)

MathMinV(a, b) == IF IsNaN(a) \/ IsNaN(b) THEN NaN ELSE IF Lt(b, a) THEN b ELSE a

MathMin(a, b) == Strict2(MathMinV, a, b)

MathMaxV(a, b) == IF IsNaN(a) \/ IsNaN(b) THEN NaN ELSE IF Lt(a, b) THEN b ELSE a

MathMax(a, b) == Strict2(MathMaxV, a, b)

MathAbsV(a) == <<Abs(a[1]), a[2]>>

MathAbs(a) == Strict1(MathAbsV, a)

InRangeV(a, lo, hi) == Ge(a, lo) /\ Le(a, hi)

\* a lies in the closed interval [lo, hi] (false for NaN).
InRange(a, lo, hi) == Strict3(InRangeV, a, lo, hi)

RECURSIVE SumSeq(_)
SumSeqV(s) ==
    IF Len(s) = 0 THEN I(0)
    ELSE IF Len(s) = 1 THEN s[1]
    ELSE LET h == Len(s) \div 2
         IN  Add(SumSeq(SubSeq(s, 1, h)), SumSeq(SubSeq(s, h + 1, Len(s))))

\* The sum of a sequence of numbers, 0 for the empty one (halving keeps the
\* evaluation shallow; exact addition does not depend on the order).
SumSeq(s) == Strict1(SumSeqV, s)

MeanV(s) == Div(SumSeq(s), I(Len(s)))

\* xs.reduce((a, b) => a + b, 0) / xs.length
Mean(s) == Strict1(MeanV, s)

RECURSIVE NewtonSqrt(_, _)
NewtonSqrtV(n, x) ==
    LET y == (x + n \div x) \div 2
    IN  IF y >= x THEN x ELSE NewtonSqrt(n, y)

\* floor(sqrt(n)) for a natural n, by Newton's iteration from x.
NewtonSqrt(n, x) == Strict2(NewtonSqrtV, n, x)

ISqrt(n) == IF n = 0 THEN 0 ELSE NewtonSqrt(n, n)

MathSqrtV(a) ==
    IF IsNaN(a) \/ a[1] < 0 THEN NaN
    ELSE IF a[2] = 0 THEN PosInf
    ELSE LET rn == ISqrt(a[1])
             rd == ISqrt(a[2])
         IN  IF rn * rn = a[1] /\ rd * rd = a[2] THEN Q(rn, rd)
             ELSE IF a[1] < 200000 THEN Q(ISqrt((a[1] * 10000) \div a[2]), 100)
             ELSE Q(ISqrt(a[1] \div a[2]), 1)

\* Math.sqrt(a): exact when numerator and denominator are perfect squares,
\* otherwise rounded down to a multiple of 1/100 (to an integer for a
\* numerator of 200000 or more); NaN for NaN and for a < 0, +Infinity for
\* +Infinity.
MathSqrt(a) == Strict1(MathSqrtV, a)

GtRootV(x, c, v) ==
    IF IsNaN(x) \/ IsNaN(v) \/ v[1] < 0 THEN FALSE
    ELSE Gt(x, I(0)) /\ Gt(Mul(x, x), Mul(Mul(c, c), v))

\* x > c * Math.sqrt(v) for a finite c >= 0, decided exactly by squaring:
\* false when x or v is NaN (a comparison with NaN is false).
GtRoot(x, c, v) == Strict3(GtRootV, x, c, v)

RECURSIVE Log2Floor(_)
Log2FloorV(a) == IF Lt(a, I(2)) THEN 0 ELSE 1 + Log2Floor(Div(a, I(2)))

\* floor(log2(a)) for a finite a >= 1.
Log2Floor(a) == Strict1(Log2FloorV, a)

Pow2(k) == 2 ^ k

LnGe1(a) ==
    LET k == Log2Floor(a)
        t == Sub(Div(a, I(Pow2(k))), I(1))
    IN  Mul(Add(I(k), t), Q(693, 1000))

MathLogV(a) ==
    IF IsNaN(a) \/ a[1] < 0 THEN NaN
    ELSE IF a[2] = 0 THEN PosInf
    ELSE IF a[1] = 0 THEN NegInf
    ELSE IF a[1] >= a[2] THEN LnGe1(a)
    ELSE Neg(LnGe1(Recip(a)))

\* Math.log(a).  Exact at 0, 1, +Infinity and NaN, NaN for a < 0, and of the
\* right sign everywhere; for a > 1 the value (k + t) * 0.693 with
\* a = 2^k * (1 + t), 0 <= t < 1 (ln 2 = 0.693, the mantissa interpolated
\* linearly: strictly increasing, error below 0.07); Math.log(1/a) = -Math.log(a).
MathLog(a) == Strict1(MathLogV, a)

---------------------------------------------------------------------------
(* Spectral engine: calculatePSD, bandPower, approximateEntropy,           *)
(* detectSpikeFrequency, analyzeChannelSpectrum.  A signal is a sequence   *)
(* of integer samples; the code's signal[i] is signal[i + 1] here.         *)

MaxWindow == 512

\* calculatePSD: windowSize = Math.min(512, signal.length)
WindowSize(signal) == IF Len(signal) < MaxWindow THEN Len(signal) ELSE MaxWindow

\* Windows that follow each other without overlap.
Overlap_None(signal) == I(WindowSize(signal))

\* calculatePSD: overlap = windowSize / 2
Overlap(signal) == Q(WindowSize(signal), 2)

\* The loop condition of calculatePSD: pos + windowSize <= signal.length
WindowFits(signal, p) == Le(Add(p, I(WindowSize(signal))), I(Len(signal)))

\* signal.slice(pos, pos + windowSize); slice truncates its bounds to integers.
Slice(signal, p) ==
    LET from == p[1] \div p[2]
        to == (p[1] + WindowSize(signal) * p[2]) \div p[2]
    IN  SubSeq(signal, from + 1, IF to > Len(signal) THEN Len(signal) ELSE to)

\* The Hann coefficient 0.5 * (1 - Math.cos(2 * Math.PI * i / (len - 1))),
\* that is sin^2(pi * i / (len - 1)).  For len = 1 the argument is 0/0 and
\* the coefficient NaN.  Otherwise the sine is taken from Bhaskara's
\* rational formula sin(pi*t) = 16t(1-t) / (5 - 4t(1-t)) (error below
\* 0.002, exact at t = 0, 1/2, 1) and the coefficient rounded down to 1/100.
Hann(i, len) ==
    IF len = 1 THEN NaN
    ELSE LET n == len - 1
             p == i * (n - i)
             sine == (16000 * p) \div (5 * n * n - 4 * p)
         IN  Q((sine * sine) \div 10000, 100)

\* SignalAfterWindow for a window that shares its storage with an
\* integer-typed signal: the products of the Hanning loop are stored into
\* the signal, truncated (NaN stored as 0).
SignalAfterWindow_Shared(signal, p) ==
    LET from == p[1] \div p[2]
        window == Slice(signal, p)
        product(i) == Mul(I(window[i]), Hann(i - 1, Len(window)))
    IN  [k \in 1..Len(signal) |->
            IF k > from /\ k <= from + Len(window)
            THEN IF IsFinite(product(k - from))
                 THEN Sign(product(k - from)[1])
                      * (Abs(product(k - from)[1]) \div product(k - from)[2])
                 ELSE 0
            ELSE signal[k]]

\* The signal after one pass of the windowing loop: window is a copy made
\* by slice, and window[i] *= ... writes to the copy only.
SignalAfterWindow(signal, p) == signal

Square(w) == Strict2(Mul, w, w)

\* magnitude[i] of a window: the square of the Hann-weighted sample.
Magnitude(window, i) == Square(Mul(I(window[i + 1]), Hann(i, Len(window))))

EmptyMap == [f \in {} |-> NaN]

MapSetV(map, key, value) ==
    [f \in DOMAIN map \cup {key} |-> IF f = key THEN value ELSE map[f]]

\* map.set(key, value)
MapSet(map, key, value) == Strict3(MapSetV, map, key, value)

GetOrZeroV(map, freq) ==
    IF freq \in DOMAIN map /\ ~IsNaN(map[freq]) /\ map[freq] # I(0)
    THEN map[freq] ELSE I(0)

\* psd.get(freq) || 0: a missing entry, 0 and NaN are all falsy.
GetOrZero(map, freq) == Strict2(GetOrZeroV, map, freq)

\* The accumulation loop of calculatePSD over the bins i .. j - 1, in
\* ascending order (the range is halved to keep the evaluation shallow).
RECURSIVE AccumulateRange(_, _, _, _, _, _)
AccumulateRange(map, window, i, j, rate, size) ==
    IF i >= j THEN map
    ELSE IF j = i + 1
    THEN Strict2(LAMBDA m, freq :
                     MapSet(m, freq, Add(GetOrZero(m, freq), Magnitude(window, i))),
                 map, Div(I(i * rate), I(size)))
    ELSE Strict1(LAMBDA m : AccumulateRange(m, window, (i + j) \div 2, j, rate, size),
                 AccumulateRange(map, window, i, (i + j) \div 2, rate, size))

\* The accumulation loop of calculatePSD over the bins i .. window.length - 1.
Accumulate(map, window, i, rate, size) ==
    AccumulateRange(map, window, i, Len(window), rate, size)

\* The averaging loop of calculatePSD.
Average(map, count) == [f \in DOMAIN map |-> Div(map[f], I(count))]

RECURSIVE SumOver(_, _)
SumOver(map, keys) ==
    IF keys = {} THEN I(0)
    ELSE LET k == CHOOSE x \in keys : TRUE
         IN  Add(SumOver(map, keys \ {k}), map[k])

\* bandPower over the bins with lowFreq <= freq < highFreq.
bandPower_HalfOpen(map, lowFreq, highFreq) ==
    Strict1(LAMBDA inBand :
                IF Cardinality(inBand) > 0
                THEN Div(SumOver(map, inBand), I(Cardinality(inBand)))
                ELSE I(0),
            {f \in DOMAIN map : Ge(f, lowFreq) /\ Lt(f, highFreq)})

bandPowerV(map, lowFreq, highFreq) ==
    Strict1(LAMBDA inBand :
                IF Cardinality(inBand) > 0
                THEN Div(SumOver(map, inBand), I(Cardinality(inBand)))
                ELSE I(0),
            {f \in DOMAIN map : Ge(f, lowFreq) /\ Le(f, highFreq)})

bandPower(map, lowFreq, highFreq) == Strict3(bandPowerV, map, lowFreq, highFreq)

MeanSquareV(signal, c) ==
    Mean([i \in 1..Len(signal) |-> Square(Sub(I(signal[i]), c))])

\* signal.reduce((a, b) => a + (b - c) ** 2, 0) / signal.length
MeanSquare(signal, c) == Strict2(MeanSquareV, signal, c)

\* countPattern of approximateEntropy: the pairs i < j of templates of
\* pattern_length samples with no pointwise difference above
\* threshold = r * std, std = Math.sqrt(MeanSquare(signal, 0)).
countPattern(signal, pattern_length, r) ==
    Strict1(LAMBDA var :
                Cardinality({pr \in (0..(Len(signal) - pattern_length))
                                     \X (0..(Len(signal) - pattern_length)) :
                    /\ pr[2] >= pr[1] + 1
                    /\ \A k \in 0..(pattern_length - 1) :
                           ~GtRoot(MathAbs(I(signal[pr[1] + k + 1] - signal[pr[2] + k + 1])),
                                   r, var)}),
            MeanSquare(signal, I(0)))

\* EntropyOf without the guard on the two match counts.
EntropyOf_Unguarded(N, m, phi_m, phi_m1) ==
    MathLog(Div(I(phi_m * (N - m)), I(phi_m1 * (N - m - 1))))

\* EntropyOf with the two terms of the quotient exchanged.
EntropyOf_Inverted(N, m, phi_m, phi_m1) ==
    IF phi_m > 0 /\ phi_m1 > 0
    THEN MathLog(Div(I(phi_m1 * (N - m - 1)), I(phi_m * (N - m))))
    ELSE I(0)

\* The result of approximateEntropy from the two match counts.
EntropyOf(N, m, phi_m, phi_m1) ==
    IF phi_m > 0 /\ phi_m1 > 0
    THEN MathLog(Div(I(phi_m * (N - m)), I(phi_m1 * (N - m - 1))))
    ELSE I(0)

\* approximateEntropy(signal) with the defaults m = 2, r = 0.2.
approximateEntropy(signal) ==
    Strict2(LAMBDA phi_m, phi_m1 : EntropyOf(Len(signal), 2, phi_m, phi_m1),
            countPattern(signal, 2, Q(2, 10)), countPattern(signal, 2 + 1, Q(2, 10)))

\* The mean of the signal: signal.reduce((a, b) => a + b, 0) / signal.length
SignalMean(signal) == Mean([k \in 1..Len(signal) |-> I(signal[k])])

\* AboveThreshold with >= in place of >.
AboveThreshold_Inclusive(x, mean, var) ==
    \/ GtRoot(Sub(I(x), mean), I(3), var)
    \/ /\ Ge(Sub(I(x), mean), I(0))
       /\ Mul(Sub(I(x), mean), Sub(I(x), mean)) = Mul(I(9), var)

\* x > threshold, threshold = mean + 3 * std, std = Math.sqrt(var).
AboveThreshold(x, mean, var) == GtRoot(Sub(I(x), mean), I(3), var)

\* SpikeScan counting every sample above the threshold, not only the onsets.
RECURSIVE SpikeScan_EverySample(_, _, _, _, _, _)
SpikeScan_EverySample(signal, mean, var, i, count, inSpike) ==
    IF i > Len(signal) THEN count
    ELSE IF AboveThreshold(signal[i], mean, var)
         THEN SpikeScan_EverySample(signal, mean, var, i + 1, count + 1, TRUE)
    ELSE SpikeScan_EverySample(signal, mean, var, i + 1, count, FALSE)

\* The scanning loop of detectSpikeFrequency from index i on (i counts from
\* 1), with spikeCount and inSpike as they stand; the final spikeCount.
RECURSIVE SpikeScan(_, _, _, _, _, _)
SpikeScan(signal, mean, var, i, count, inSpike) ==
    IF i > Len(signal) THEN count
    ELSE IF AboveThreshold(signal[i], mean, var) /\ ~inSpike
         THEN SpikeScan(signal, mean, var, i + 1, count + 1, TRUE)
    ELSE IF ~AboveThreshold(signal[i], mean, var)
         THEN SpikeScan(signal, mean, var, i + 1, count, FALSE)
    ELSE SpikeScan(signal, mean, var, i + 1, count, inSpike)

\* The spike count of detectSpikeFrequency: the scan from the first sample
\* with spikeCount = 0 and inSpike = false.
spikeCount(signal) ==
    Strict1(LAMBDA mean :
                Strict1(LAMBDA var : SpikeScan(signal, mean, var, 1, 0, FALSE),
                        MeanSquare(signal, mean)),
            SignalMean(signal))

detectSpikeFrequency(signal, rate) ==
    Div(I(spikeCount(signal)), Div(I(Len(signal)), I(rate)))

\* Relative without the factor 100.
Relative_NoPercent(band, total) == Div(band, total)

\* (band / total) * 100
Relative(band, total) == Mul(Div(band, total), I(100))

\* DeltaThetaRatio without the guard on the two band powers.
DeltaThetaRatio_Unguarded(delta, theta) == Div(delta, theta)

\* delta > 0 && theta > 0 ? delta / theta : 0
DeltaThetaRatio(delta, theta) ==
    IF Gt(delta, I(0)) /\ Gt(theta, I(0)) THEN Div(delta, theta) ELSE I(0)

\* analyzeChannelSpectrum once calculatePSD has returned map and the five
\* band powers bp = <<delta, theta, alpha, beta, gamma>> are computed.
SpectrumOf(channel, rate, bp) ==
    LET delta == bp[1]
        theta == bp[2]
        alpha == bp[3]
        beta == bp[4]
        gamma == bp[5]
        total == Add(Add(Add(Add(delta, theta), alpha), beta), gamma)
    IN  [channel |-> channel.name,
         bands |-> [delta |-> [power |-> delta, relative |-> Relative(delta, total)],
                    theta |-> [power |-> theta, relative |-> Relative(theta, total)],
                    alpha |-> [power |-> alpha, relative |-> Relative(alpha, total)],
                    beta |-> [power |-> beta, relative |-> Relative(beta, total)],
                    gamma |-> [power |-> gamma, relative |-> Relative(gamma, total)]],
         deltaTheta |-> DeltaThetaRatio(delta, theta),
         alphaAbsolute |-> alpha,
         complexity |-> approximateEntropy(channel.data),
         spikeFrequency |-> detectSpikeFrequency(channel.data, rate)]

\* The five calls of bandPower in analyzeChannelSpectrum.
BandPowers(map) ==
    <<bandPower(map, Q(1, 2), I(4)), bandPower(map, I(4), I(8)),
      bandPower(map, I(8), I(12)), bandPower(map, I(12), I(30)),
      bandPower(map, I(30), I(50))>>

\* analyzeChannelSpectrum once calculatePSD has returned map.
analyzeChannelSpectrum(channel, rate, map) ==
    Strict1(LAMBDA bp : SpectrumOf(channel, rate, bp), Strict1(BandPowers, map))

---------------------------------------------------------------------------
(* Connectivity engine: calculateConnectivity, calculateCorrelation.       *)

frontalChannels == <<"Fp1", "Fp2", "F7", "F3", "Fz", "F4", "F8">>

temporalChannels == <<"T7", "T8", "P7", "P8">>

Includes(list, name) == \E i \in 1..Len(list) : list[i] = name

\* The variance of a channel as calculateConnectivity computes it.
ChannelPower(data) == MeanSquare(data, SignalMean(data))

\* The sum of the power of the channels whose name is in list (a channel
\* outside the list adds nothing).
RegionPower(chs, list) ==
    SumSeq([i \in 1..Len(chs) |->
               IF Includes(list, chs[i].name) THEN ChannelPower(chs[i].data) ELSE I(0)])

MinInt(a, b) == IF a < b THEN a ELSE b

calculateCorrelation(x, y) ==
    LET n == MinInt(Len(x), Len(y))
        xMean == Mean([i \in 1..n |-> I(x[i])])
        yMean == Mean([i \in 1..n |-> I(y[i])])
        xDiff(i) == Sub(I(x[i]), xMean)
        yDiff(i) == Sub(I(y[i]), yMean)
        numerator == SumSeq([i \in 1..n |-> Mul(xDiff(i), yDiff(i))])
        xDenom == SumSeq([i \in 1..n |-> Mul(xDiff(i), xDiff(i))])
        yDenom == SumSeq([i \in 1..n |-> Mul(yDiff(i), yDiff(i))])
        denominator == MathSqrt(Mul(xDenom, yDenom))
    IN  IF Gt(denominator, I(0)) THEN Div(numerator, denominator) ELSE I(0)

\* The channel pairs i < j in the order of the nested loops.
RECURSIVE PairsFrom(_, _, _)
PairsFrom(n, i, j) ==
    IF i >= n THEN <<>>
    ELSE IF j > n THEN PairsFrom(n, i + 1, i + 2)
    ELSE <<(<<i, j>>)>> \o PairsFrom(n, i, j + 1)

\* TotalCoherence dividing by the number of ordered pairs.
TotalCoherence_OrderedPairs(chs) ==
    IF Len(chs) > 1
    THEN LET pairs == PairsFrom(Len(chs), 1, 2)
             sum == SumSeq([k \in 1..Len(pairs) |->
                        MathAbs(calculateCorrelation(chs[pairs[k][1]].data,
                                                     chs[pairs[k][2]].data))])
         IN  Div(sum, I(Len(chs) * (Len(chs) - 1)))
    ELSE I(0)

\* totalCoherence of calculateConnectivity.
TotalCoherence(chs) ==
    IF Len(chs) > 1
    THEN LET pairs == PairsFrom(Len(chs), 1, 2)
             sum == SumSeq([k \in 1..Len(pairs) |->
                        MathAbs(calculateCorrelation(chs[pairs[k][1]].data,
                                                     chs[pairs[k][2]].data))])
         IN  Div(sum, Div(I(Len(chs) * (Len(chs) - 1)), I(2)))
    ELSE I(0)

\* calculateConnectivity normalising each region by the number of its
\* channels present in the recording.
calculateConnectivity_PresentCount(chs) ==
    LET totalCoherence == TotalCoherence(chs)
    IN  [localCoherence |-> totalCoherence,
         remoteCoherence |-> MathMax(I(0), Sub(totalCoherence, Q(2, 10))),
         synchronization |-> totalCoherence,
         frontalPower |-> Div(RegionPower(chs, frontalChannels),
                              I(Cardinality({i \in 1..Len(chs) :
                                   Includes(frontalChannels, chs[i].name)}))),
         temporalPower |-> Div(RegionPower(chs, temporalChannels),
                               I(Cardinality({i \in 1..Len(chs) :
                                    Includes(temporalChannels, chs[i].name)})))]

calculateConnectivity(chs) ==
    LET totalCoherence == TotalCoherence(chs)
    IN  [localCoherence |-> totalCoherence,
         remoteCoherence |-> MathMax(I(0), Sub(totalCoherence, Q(2, 10))),
         synchronization |-> totalCoherence,
         frontalPower |-> Div(RegionPower(chs, frontalChannels),
                              I(Len(frontalChannels))),
         temporalPower |-> Div(RegionPower(chs, temporalChannels),
                               I(Len(temporalChannels)))]

---------------------------------------------------------------------------
(* Risk scoring engine: calculateSchizophreniaRisk.                        *)

\* spectralAnalyses.reduce((a, b) => a + b.<field>, 0) / spectralAnalyses.length
AvgDeltaTheta(sa) == Mean([i \in 1..Len(sa) |-> sa[i].deltaTheta])

AvgAlpha(sa) == Mean([i \in 1..Len(sa) |-> sa[i].alphaAbsolute])

AvgComplexity(sa) == Mean([i \in 1..Len(sa) |-> sa[i].complexity])

AvgSpikes(sa) == Mean([i \in 1..Len(sa) |-> sa[i].spikeFrequency])

\* DeltaThetaScore without the lower clamp Math.max(0, ...).
DeltaThetaScore_NoFloor(avgDeltaTheta) ==
    MathMin(I(25), Mul(Div(Sub(avgDeltaTheta, Q(12, 10)), Q(5, 10)), I(25)))

\* Math.min(25, Math.max(0, (avgDeltaTheta - 1.2) / 0.5 * 25))
DeltaThetaScore(avgDeltaTheta) ==
    MathMin(I(25), MathMax(I(0), Mul(Div(Sub(avgDeltaTheta, Q(12, 10)), Q(5, 10)), I(25))))

\* ReducedAlphaScore with the difference taken the wrong way round.
ReducedAlphaScore_Flipped(avgAlpha) ==
    MathMin(I(20), MathMax(I(0), Mul(Div(Sub(avgAlpha, I(4)), I(2)), I(20))))

\* Math.min(20, Math.max(0, (4 - avgAlpha) / 2 * 20))
ReducedAlphaScore(avgAlpha) ==
    MathMin(I(20), MathMax(I(0), Mul(Div(Sub(I(4), avgAlpha), I(2)), I(20))))

\* Math.min(15, Math.max(0, avgComplexity > 1.5 ? 15 : avgComplexity / 1.5 * 15))
ComplexityScore(avgComplexity) ==
    MathMin(I(15), MathMax(I(0),
        IF Gt(avgComplexity, Q(15, 10)) THEN I(15)
        ELSE Mul(Div(avgComplexity, Q(15, 10)), I(15))))

\* Math.min(15, Math.max(0, (0.4 - connectivity.synchronization) / 0.4 * 15))
ConnectivityScore(synchronization) ==
    MathMin(I(15), MathMax(I(0), Mul(Div(Sub(Q(4, 10), synchronization), Q(4, 10)), I(15))))

\* AnomaliesScore without the cap Math.min(25, ...).
AnomaliesScore_NoCap(avgSpikes) ==
    MathMax(I(0), Mul(Div(avgSpikes, Q(5, 10)), I(25)))

\* Math.min(25, Math.max(0, avgSpikes / 0.5 * 25))
AnomaliesScore(avgSpikes) ==
    MathMin(I(25), MathMax(I(0), Mul(Div(avgSpikes, Q(5, 10)), I(25))))

\* CompositeScore with the connectivity sub-score left out of the sum.
CompositeScore_NoConnectivity(deltaTheta, reducedAlpha, complexity, connectivity_score, anomalies) ==
    MathMin(I(100), Add(Add(Add(deltaTheta, reducedAlpha), complexity), anomalies))

\* score: Math.min(100, deltaTheta + reducedAlpha + complexity + connectivity_score + anomalies)
CompositeScore(deltaTheta, reducedAlpha, complexity, connectivity_score, anomalies) ==
    MathMin(I(100),
            Add(Add(Add(Add(deltaTheta, reducedAlpha), complexity), connectivity_score),
                anomalies))

calculateSchizophreniaRisk(sa, conn) ==
    LET deltaTheta == DeltaThetaScore(AvgDeltaTheta(sa))
        reducedAlpha == ReducedAlphaScore(AvgAlpha(sa))
        complexity == ComplexityScore(AvgComplexity(sa))
        connectivity_score == ConnectivityScore(conn.synchronization)
        anomalies == AnomaliesScore(AvgSpikes(sa))
    IN  [deltaTheta |-> deltaTheta,
         reducedAlpha |-> reducedAlpha,
         complexity |-> complexity,
         connectivity |-> connectivity_score,
         anomalies |-> anomalies,
         score |-> CompositeScore(deltaTheta, reducedAlpha, complexity,
                                  connectivity_score, anomalies)]

\* The biomarker summaries of performAdvancedAnalysis.
Biomarkers(sa, conn) ==
    <<[name |-> "Delta/Theta Ratio", value |-> AvgDeltaTheta(sa),
       normal |-> <<Q(5, 10), Q(12, 10)>>,
       abnormal |-> Gt(AvgDeltaTheta(sa), Q(12, 10))],
      [name |-> "Average Alpha Power", value |-> AvgAlpha(sa),
       normal |-> <<I(4), I(8)>>,
       abnormal |-> Lt(AvgAlpha(sa), I(4))],
      [name |-> "Brain Synchronization", value |-> conn.synchronization,
       normal |-> <<Q(3, 10), Q(6, 10)>>,
       abnormal |-> Lt(conn.synchronization, Q(3, 10))],
      [name |-> "Spike Frequency (Hz)", value |-> AvgSpikes(sa),
       normal |-> <<I(0), Q(1, 10)>>,
       abnormal |-> Gt(AvgSpikes(sa), Q(1, 10))]>>

---------------------------------------------------------------------------
(* Feature extraction and anomaly detection of eegParser.ts:               *)
(* extractEEGFeatures, detectAnomalies.                                    *)

\* data.reduce((a, b) => a + b, 0) / data.length
DataMean(data) == Mean([k \in 1..Len(data) |-> I(data[k])])

\* data.reduce((a, b) => a + Math.pow(b - mean, 2), 0) / data.length
DataVariance(data, mean) == MeanSquare(data, mean)

\* Math.max(...data): -Infinity for no arguments.
RECURSIVE MaxOf(_)
MaxOf(data) ==
    IF data = <<>> THEN NegInf
    ELSE MathMax(MaxOf(SubSeq(data, 1, Len(data) - 1)), I(data[Len(data)]))

\* Math.min(...data): Infinity for no arguments.
RECURSIVE MinOf(_)
MinOf(data) ==
    IF data = <<>> THEN PosInf
    ELSE MathMin(MinOf(SubSeq(data, 1, Len(data) - 1)), I(data[Len(data)]))

\* peakToPeak = max - min
PeakToPeak(data) == Sub(MaxOf(data), MinOf(data))

\* The zero-crossing loop of extractEEGFeatures.
ZeroCrossings(data) ==
    Cardinality({i \in 2..Len(data) :
                    \/ (data[i] >= 0 /\ data[i - 1] < 0)
                    \/ (data[i] < 0 /\ data[i - 1] >= 0)})

\* The five features extractEEGFeatures computes for one channel.
ChannelFeatures(data) ==
    Strict1(LAMBDA mean :
                Strict1(LAMBDA variance :
                            [mean |-> mean,
                             std |-> MathSqrt(variance),
                             peakToPeak |-> PeakToPeak(data),
                             zeroCrossings |-> I(ZeroCrossings(data)),
                             variance |-> variance],
                        DataVariance(data, mean)),
            DataMean(data))

FeatureNames == {"mean", "std", "peakToPeak", "zeroCrossings", "variance"}

\* extractEEGFeatures: the key `${channel.name}_<feature>` is the pair
\* <<channel.name, feature>>; a later channel of the same name overwrites
\* the entries of an earlier one.
extractEEGFeatures(chs) ==
    Strict1(LAMBDA computed :
                [key \in {chs[i].name : i \in 1..Len(chs)} \X FeatureNames |->
                    LET last == CHOOSE i \in 1..Len(chs) :
                                    /\ chs[i].name = key[1]
                                    /\ \A j \in (i + 1)..Len(chs) : chs[j].name # key[1]
                    IN  computed[last][key[2]]],
            [i \in 1..Len(chs) |-> ChannelFeatures(chs[i].data)])

\* Math.sqrt(v) > c for a finite c >= 0, decided exactly: v > c * c (false
\* for NaN).
SqrtGt(v, c) == Gt(v, Mul(c, c))

\* IsAnomalous comparing the mean, not its absolute value.
IsAnomalous_NoAbs(data) ==
    Strict1(LAMBDA mean :
                \/ SqrtGt(DataVariance(data, mean), I(100))
                \/ Gt(PeakToPeak(data), I(300))
                \/ Gt(mean, I(50)),
            DataMean(data))

\* stdDev > 100 || peakToPeak > 300 || Math.abs(mean) > 50
IsAnomalous(data) ==
    Strict1(LAMBDA mean :
                \/ SqrtGt(DataVariance(data, mean), I(100))
                \/ Gt(PeakToPeak(data), I(300))
                \/ Gt(MathAbs(mean), I(50)),
            DataMean(data))

\* The forEach of detectAnomalies from channel i on, with the names pushed
\* so far.
RECURSIVE AnomalyScan(_, _, _)
AnomalyScan(chs, i, pushed) ==
    IF i > Len(chs) THEN pushed
    ELSE AnomalyScan(chs, i + 1,
                     IF IsAnomalous(chs[i].data) THEN Append(pushed, chs[i].name)
                     ELSE pushed)

detectAnomalies(chs) == AnomalyScan(chs, 1, <<>>)

---------------------------------------------------------------------------
(* File parsing of eegParser.ts: parseCSV, parseEDF, parseEEGFile.  A      *)
(* string is a sequence of characters, each a one-character string.        *)

WhiteSpace == {" ", "\n", "\t", "\r"}

\* String.prototype.trim
Trim(s) ==
    LET solid == {i \in 1..Len(s) : s[i] \notin WhiteSpace}
    IN  IF solid = {} THEN <<>>
        ELSE SubSeq(s, CHOOSE i \in solid : \A j \in solid : i <= j,
                       CHOOSE i \in solid : \A j \in solid : i >= j)

\* The scan of split from character i on: piece is the current piece and
\* pieces are the pieces closed so far.
RECURSIVE SplitFrom(_, _, _, _, _)
SplitFrom(s, separator, i, piece, pieces) ==
    IF i > Len(s) THEN Append(pieces, piece)
    ELSE IF s[i] = separator
         THEN SplitFrom(s, separator, i + 1, <<>>, Append(pieces, piece))
    ELSE SplitFrom(s, separator, i + 1, Append(piece, s[i]), pieces)

\* String.prototype.split with a one-character separator; "" splits into
\* one empty piece.
Split(s, separator) == SplitFrom(s, separator, 1, <<>>, <<>>)

UpperCase == <<"C", "F", "H", "S", "T", "V", "X">>

LowerCase == <<"c", "f", "h", "s", "t", "v", "x">>

\* String.prototype.toLowerCase on the letters in use.
toLowerCase(s) ==
    [i \in 1..Len(s) |->
        IF \E k \in 1..Len(UpperCase) : UpperCase[k] = s[i]
        THEN LowerCase[CHOOSE k \in 1..Len(UpperCase) : UpperCase[k] = s[i]]
        ELSE s[i]]

\* String.prototype.includes
includes(s, part) ==
    \E i \in 0..(Len(s) - Len(part)) : SubSeq(s, i + 1, i + Len(part)) = part

Digits == <<"0", "1", "2", "3", "4", "5", "6", "7", "8", "9">>

IsDigit(c) == \E k \in 1..Len(Digits) : Digits[k] = c

DigitValue(c) == (CHOOSE k \in 1..Len(Digits) : Digits[k] = c) - 1

\* The length of the run of digits of s that starts at position i.
RECURSIVE DigitRun(_, _)
DigitRun(s, i) ==
    IF i <= Len(s) /\ IsDigit(s[i]) THEN 1 + DigitRun(s, i + 1) ELSE 0

\* The natural number written by the digits s[i] .. s[i + n - 1].
RECURSIVE DigitsValue(_, _, _)
DigitsValue(s, i, n) ==
    IF n = 0 THEN 0 ELSE DigitsValue(s, i, n - 1) * 10 + DigitValue(s[i + n - 1])

RECURSIVE Pow10(_)
Pow10(n) == IF n = 0 THEN 1 ELSE 10 * Pow10(n - 1)

\* parseFloat on decimal literals: leading white space is skipped, then an
\* optional sign, digits, and an optional point with digits; the longest
\* such prefix is the value and what follows is ignored; NaN when there is
\* no digit.  (Exponents and "Infinity" are not in the alphabet in use.)
parseFloat(s) ==
    LET solid == {i \in 1..Len(s) : s[i] \notin WhiteSpace}
        start == IF solid = {} THEN Len(s) + 1
                 ELSE CHOOSE i \in solid : \A j \in solid : i <= j
        signed == start <= Len(s) /\ s[start] \in {"-", "+"}
        from == IF signed THEN start + 1 ELSE start
        whole == DigitRun(s, from)
        pointed == from + whole <= Len(s) /\ s[from + whole] = "."
        fraction == IF pointed THEN DigitRun(s, from + whole + 1) ELSE 0
        magnitude == Add(I(DigitsValue(s, from, whole)),
                         Q(DigitsValue(s, from + whole + 1, fraction), Pow10(fraction)))
    IN  IF whole = 0 /\ fraction = 0 THEN NaN
        ELSE IF signed /\ s[start] = "-" THEN Neg(magnitude)
        ELSE magnitude

\* The decimal text of a natural number.
RECURSIVE DecimalText(_)
DecimalText(n) ==
    IF n < 10 THEN <<Digits[n + 1]>>
    ELSE Append(DecimalText(n \div 10), Digits[(n % 10) + 1])

\* The outcome of a parse: a recording returned, or an error thrown.
Returned(chs, duration) ==
    [status |-> "ok", channels |-> chs, duration |-> duration,
     samplingRate |-> 256, error |-> "none"]

Thrown(error) ==
    [status |-> "error", channels |-> <<>>, duration |-> I(0),
     samplingRate |-> 0, error |-> error]

\* parseCSV: headers = lines[0].split(',').map(h => h.trim())
Headers(lines) ==
    LET cells == Split(lines[1], ",") IN [k \in 1..Len(cells) |-> Trim(cells[k])]

\* parseCSV: hasTimestamp
HasTimestamp(lines) ==
    \/ includes(toLowerCase(Headers(lines)[1]), <<"t", "i", "m", "e">>)
    \/ includes(toLowerCase(Headers(lines)[1]),
                <<"t", "i", "m", "e", "s", "t", "a", "m", "p">>)
    \/ ~IsNaN(parseFloat(Split(lines[2], ",")[1]))

\* parseCSV: values = lines[i].split(',').map(v => parseFloat(v.trim()))
RowValues(line) ==
    LET cells == Split(line, ",") IN [k \in 1..Len(cells) |-> parseFloat(Trim(cells[k]))]

\* RowSamples pushing 0 for a cell that is not a number.
RowSamples_ZeroFill(values, j, dataStart) ==
    IF j + dataStart <= Len(values) /\ ~IsNaN(values[j + dataStart])
    THEN <<values[j + dataStart]>>
    ELSE <<I(0)>>

\* What a row that is not skipped pushes to channelData[j - 1]:
\* values[j + dataStart] unless it is NaN or undefined.
RowSamples(values, j, dataStart) ==
    IF j + dataStart <= Len(values) /\ ~IsNaN(values[j + dataStart])
    THEN <<values[j + dataStart]>>
    ELSE <<>>

\* channelData[j - 1] after the rows i .. of the loop over the data rows.
RECURSIVE ChannelData(_, _, _, _, _)
ChannelData(rows, i, j, dataStart, channelCount) ==
    IF i > Len(rows) THEN <<>>
    ELSE (IF Len(rows[i]) < channelCount THEN <<>>
          ELSE RowSamples(rows[i], j, dataStart))
         \o ChannelData(rows, i + 1, j, dataStart, channelCount)

\* parseCSV once the file has at least two lines.
ParseLines(lines) ==
    LET headers == Headers(lines)
        hasTimestamp == HasTimestamp(lines)
        channelNames == IF hasTimestamp THEN Tail(headers) ELSE headers
        channelCount == Len(channelNames)
        dataStart == IF hasTimestamp THEN 1 ELSE 0
        rows == [i \in 1..(Len(lines) - 1) |-> RowValues(lines[i + 1])]
        made == [j \in 1..channelCount |->
                    [name |-> IF channelNames[j] # <<>> THEN channelNames[j]
                              ELSE <<"C", "H">> \o DecimalText(j),
                     data |-> ChannelData(rows, 1, j, dataStart, channelCount),
                     samplingRate |-> 256]]
    IN  IF channelCount = 0 THEN Thrown("TypeError")
        ELSE Returned(made, Div(I(Len(made[1].data)), I(256)))

\* parseCSV: throws for fewer than two lines; channelData[0].length throws a
\* TypeError when there is no channel.
parseCSV(fileContent) ==
    Strict1(LAMBDA lines : IF Len(lines) < 2 THEN Thrown("Error") ELSE ParseLines(lines),
            Split(Trim(fileContent), "\n"))

standardChannels == <<"Fp1", "Fp2", "F7", "F3", "Fz", "F4", "F8", "T7", "C3", "Cz">>

\* parseEDF: throws when the header cannot be read; otherwise returns up
\* to ten channels of generated samples (Math.random), which are left
\* unspecified here.
parseEDFOutcomes ==
    {Thrown("Error")}
    \cup {Returned([i \in 1..n |-> [name |-> standardChannels[i], data |-> <<>>,
                                    samplingRate |-> 256]], I(10)) : n \in {0, 2}}

\* parseEEGFile: extension = file.name.split('.').pop()?.toLowerCase()
Extension(name) ==
    LET parts == Split(name, ".") IN toLowerCase(parts[Len(parts)])

\* parseEEGFile treating every other extension as delimited text.
parseEEGFileOutcomes_DefaultToCSV(f) ==
    IF Extension(f.name) = <<"e", "d", "f">> THEN parseEDFOutcomes
    ELSE {parseCSV(f.content)}

\* parseEEGFile: the outcomes of the switch on the extension.
parseEEGFileOutcomes(f) ==
    IF Extension(f.name) \in {<<"c", "s", "v">>, <<"t", "x", "t">>}
    THEN {parseCSV(f.content)}
    ELSE IF Extension(f.name) = <<"e", "d", "f">> THEN parseEDFOutcomes
    ELSE {Thrown("Error")}

---------------------------------------------------------------------------
(* The recording under analysis and the state of performAdvancedAnalysis.  *)

VARIABLES
    channels,          \* parsedData.channels: sequence of [name, data]
    samplingRate,      \* parsedData.samplingRate
    pc,                \* "psd", "connectivity", "risk" or "done"
    ch,                \* index of the channel analyzeChannelSpectrum works on
    pos,               \* calculatePSD: window start
    windowCount,       \* calculatePSD: windows accumulated so far
    psd,               \* calculatePSD: frequency -> accumulated power
    spectralAnalyses,  \* profiles of the channels analysed so far
    connectivity,      \* result of calculateConnectivity
    riskFactors,       \* result of calculateSchizophreniaRisk
    biomarkers,        \* performAdvancedAnalysis: biomarker summaries
    spikeRate,         \* result of a direct call of detectSpikeFrequency
    file,              \* the File given to parseEEGFile: [name, content], and
                       \* the rows of cells its content was written from
    parsed,            \* outcome of parseEEGFile / parseCSV
    features,          \* result of extractEEGFeatures
    anomalousChannels, \* result of detectAnomalies
    fftSignal,         \* the signal given to fft
    fftOut,            \* the array fft returns
    users,             \* table users: _id -> document
    projects,          \* table projects: _id -> document
    eegAnalyses,       \* table eegAnalyses: _id -> document
    nextId,            \* the next _id ctx.db.insert hands out
    schema,            \* the deployed schema: table name -> field names
    call,              \* the last function call made to the back end
    aiRun              \* the running call of analyzeEEGWithAI

\* The state of the parser functions of eegParser.ts.
parserVars == <<file, parsed, features, anomalousChannels>>

\* The state of the analysis functions of advancedEEGAnalysis.ts.
analysisVars == <<samplingRate, ch, pos, windowCount, psd, spectralAnalyses,
                  connectivity, riskFactors, biomarkers, spikeRate>>

\* The state of a call of fft.
fftVars == <<fftSignal, fftOut>>

\* The state of the Convex back end (convex/*.ts).
serverVars == <<users, projects, eegAnalyses, nextId, schema, call, aiRun>>

vars == <<channels, samplingRate, pc, ch, pos, windowCount, psd,
          spectralAnalyses, connectivity, riskFactors, biomarkers, spikeRate,
          file, parsed, features, anomalousChannels, fftSignal, fftOut,
          users, projects, eegAnalyses, nextId, schema, call, aiRun>>

\* No file given, nothing parsed, no features extracted, no anomalies listed.
NoFile == [name |-> <<>>, content |-> <<>>, written |-> <<>>]

NotParsed == [status |-> "none"]

ParserIdle ==
    /\ file = NoFile
    /\ parsed = NotParsed
    /\ features = <<>>
    /\ anomalousChannels = <<>>

\* fft has not been called.
FftIdle ==
    /\ fftSignal = <<>>
    /\ fftOut = <<>>

\* No call made to the back end.
NoCall == [fn |-> "none"]

\* The back end with empty tables and no call made.
ServerIdle ==
    /\ users = <<>>
    /\ projects = <<>>
    /\ eegAnalyses = <<>>
    /\ nextId = 1
    /\ schema = <<>>
    /\ call = NoCall
    /\ aiRun = NoCall


---------------------------------------------------------------------------
(* Bounds of the model and the recordings analysed.                        *)

\* Longest channel of a single-channel recording.
MaxLen == 5

\* Longest channel of a two-channel recording.
MaxLen2 == 2

\* windowCount++ no longer changes a double that has reached 2^53;
\* CountLimit stands for that value.
CountLimit == 4

Samples == {-1, 0, 2}

SamplingRates == {8, 20, 50}

RECURSIVE SignalsOfLen(_)
SignalsOfLen(n) ==
    IF n = 0 THEN {<<>>}
    ELSE {Append(s, v) : s \in SignalsOfLen(n - 1), v \in Samples}

Signals(maxLen) == UNION {SignalsOfLen(n) : n \in 0..maxLen}

Channel(name, data) == [name |-> name, data |-> data]

Recordings ==
    {<<>>}
    \cup {<<Channel("Fp1", s)>> : s \in Signals(MaxLen)}
    \cup {<<Channel(nm[1], s), Channel(nm[2], t)>> :
             nm \in {<<"Fp1", "T7">>, <<"Cz", "Cz">>},
             s \in Signals(MaxLen2), t \in Signals(MaxLen2)}

NoConnectivity ==
    [localCoherence |-> I(0), remoteCoherence |-> I(0), synchronization |-> I(0),
     frontalPower |-> I(0), temporalPower |-> I(0)]

NoRisk ==
    [deltaTheta |-> I(0), reducedAlpha |-> I(0), complexity |-> I(0),
     connectivity |-> I(0), anomalies |-> I(0), score |-> I(0)]

---------------------------------------------------------------------------
(* performAdvancedAnalysis as a process: the windows of calculatePSD one   *)
(* per step, then the rest of analyzeChannelSpectrum for the channel, then *)
(* calculateConnectivity, then calculateSchizophreniaRisk.                 *)

Init ==
    /\ channels \in Recordings
    /\ samplingRate \in IF Len(channels) = 2 THEN {20} ELSE SamplingRates
    /\ pc = IF channels = <<>> THEN "connectivity" ELSE "psd"
    /\ ch = 1
    /\ pos = I(0)
    /\ windowCount = 0
    /\ psd = EmptyMap
    /\ spectralAnalyses = <<>>
    /\ connectivity = NoConnectivity
    /\ riskFactors = NoRisk
    /\ biomarkers = <<>>
    /\ spikeRate = I(0)
    /\ ParserIdle
    /\ FftIdle
    /\ ServerIdle

\* One iteration of the while loop of calculatePSD.
PSDWindow ==
    /\ pc = "psd"
    /\ WindowFits(channels[ch].data, pos)
    /\ psd' = Accumulate(psd, Slice(channels[ch].data, pos), 0, samplingRate,
                         WindowSize(channels[ch].data))
    /\ windowCount' = IF windowCount < CountLimit THEN windowCount + 1 ELSE windowCount
    /\ pos' = Add(pos, Overlap(channels[ch].data))
    /\ channels' = [channels EXCEPT ![ch].data = SignalAfterWindow(@, pos)]
    /\ UNCHANGED parserVars
    /\ UNCHANGED <<fftVars, serverVars>>
    /\ UNCHANGED <<samplingRate, pc, ch, spectralAnalyses, connectivity,
                   riskFactors, biomarkers, spikeRate>>

\* The loop of calculatePSD has ended: average, and finish analyzeChannelSpectrum.
AnalyzeChannel ==
    /\ pc = "psd"
    /\ ~WindowFits(channels[ch].data, pos)
    /\ spectralAnalyses' =
           Append(spectralAnalyses,
                  analyzeChannelSpectrum(channels[ch], samplingRate,
                                         Average(psd, windowCount)))
    /\ ch' = ch + 1
    /\ pc' = IF ch = Len(channels) THEN "connectivity" ELSE "psd"
    /\ pos' = I(0)
    /\ windowCount' = 0
    /\ psd' = EmptyMap
    /\ UNCHANGED parserVars
    /\ UNCHANGED <<fftVars, serverVars>>
    /\ UNCHANGED <<channels, samplingRate, connectivity, riskFactors, biomarkers,
                   spikeRate>>

CalculateConnectivity ==
    /\ pc = "connectivity"
    /\ connectivity' = calculateConnectivity(channels)
    /\ pc' = "risk"
    /\ UNCHANGED parserVars
    /\ UNCHANGED <<fftVars, serverVars>>
    /\ UNCHANGED <<channels, samplingRate, ch, pos, windowCount, psd,
                   spectralAnalyses, riskFactors, biomarkers, spikeRate>>

CalculateRisk ==
    /\ pc = "risk"
    /\ riskFactors' = calculateSchizophreniaRisk(spectralAnalyses, connectivity)
    /\ biomarkers' = Biomarkers(spectralAnalyses, connectivity)
    /\ pc' = "done"
    /\ UNCHANGED parserVars
    /\ UNCHANGED <<fftVars, serverVars>>
    /\ UNCHANGED <<channels, samplingRate, ch, pos, windowCount, psd,
                   spectralAnalyses, connectivity, spikeRate>>

Next == PSDWindow \/ AnalyzeChannel \/ CalculateConnectivity \/ CalculateRisk

Spec == Init /\ [][Next]_vars

schizophreniaRiskScore == riskFactors.score


\* The JavaScript engine keeps running the function it has entered.
FairSpec == Init /\ [][Next]_vars /\ WF_vars(Next)

---------------------------------------------------------------------------
(* calculateSchizophreniaRisk called directly (it is exported) on a list   *)
(* of channel profiles and a connectivity result of the caller's choice.   *)

\* Longest list of profiles.
MaxProfiles == 3

Profile(deltaTheta, alphaAbsolute, complexity, spikeFrequency) ==
    [channel |-> "Fp1",
     bands |-> [delta |-> [power |-> I(0), relative |-> I(0)],
                theta |-> [power |-> I(0), relative |-> I(0)],
                alpha |-> [power |-> alphaAbsolute, relative |-> I(0)],
                beta |-> [power |-> I(0), relative |-> I(0)],
                gamma |-> [power |-> I(0), relative |-> I(0)]],
     deltaTheta |-> deltaTheta,
     alphaAbsolute |-> alphaAbsolute,
     complexity |-> complexity,
     spikeFrequency |-> spikeFrequency]

RiskProfiles ==
    {Profile(I(0), I(0), I(0), I(0)),
     Profile(I(1), I(8), I(0), I(0)),
     Profile(I(1000), I(-1000), I(2), I(10)),
     Profile(I(-1000), I(1000), I(-3), I(-5)),
     Profile(Q(29, 20), I(3), Q(3, 4), Q(1, 4)),
     Profile(I(2), I(5), Q(3, 2), Q(1, 2)),
     Profile(NaN, I(3), Q(3, 4), Q(1, 4)),
     Profile(I(1), PosInf, I(0), NegInf)}

RECURSIVE ProfileLists(_)
ProfileLists(n) ==
    IF n = 0 THEN {<<>>}
    ELSE {Append(l, q) : l \in ProfileLists(n - 1), q \in RiskProfiles}

Synchronizations == {I(-1), I(0), Q(1, 5), I(1), NaN}

RiskInit ==
    /\ channels = <<>>
    /\ samplingRate = 20
    /\ pc = "risk"
    /\ ch = 1
    /\ pos = I(0)
    /\ windowCount = 0
    /\ psd = EmptyMap
    /\ spectralAnalyses \in UNION {ProfileLists(n) : n \in 1..MaxProfiles}
    /\ connectivity \in {[NoConnectivity EXCEPT !.synchronization = y,
                                                !.localCoherence = y] :
                            y \in Synchronizations}
    /\ riskFactors = NoRisk
    /\ biomarkers = <<>>
    /\ spikeRate = I(0)
    /\ ParserIdle
    /\ FftIdle
    /\ ServerIdle

RiskNext == CalculateRisk

RiskSpec == RiskInit /\ [][RiskNext]_vars

---------------------------------------------------------------------------
(* detectSpikeFrequency called on long signals: a baseline of zeros with   *)
(* up to MaxSpikes raised samples among the first SpikePositions samples.  *)

\* Length of the signals.
SpikeLen == 32

\* The raised samples lie among the first SpikePositions samples.
SpikePositions == 6

\* Most raised samples in a signal.
MaxSpikes == 3

SpikeAmplitudes == {1, 3}

RECURSIVE SpikeSignals(_)
SpikeSignals(k) ==
    IF k = 0 THEN {[i \in 1..SpikeLen |-> 0]}
    ELSE SpikeSignals(k - 1)
         \cup {[s EXCEPT ![i] = a] : s \in SpikeSignals(k - 1),
                                     i \in 1..SpikePositions, a \in SpikeAmplitudes}

SpikeInit ==
    /\ channels \in {<<Channel("Fp1", s)>> : s \in SpikeSignals(MaxSpikes)}
    /\ samplingRate \in {8, 256}
    /\ pc = "spike"
    /\ ch = 1
    /\ pos = I(0)
    /\ windowCount = 0
    /\ psd = EmptyMap
    /\ spectralAnalyses = <<>>
    /\ connectivity = NoConnectivity
    /\ riskFactors = NoRisk
    /\ biomarkers = <<>>
    /\ spikeRate = I(0)
    /\ ParserIdle
    /\ FftIdle
    /\ ServerIdle

DetectSpikeFrequency ==
    /\ pc = "spike"
    /\ spikeRate' = detectSpikeFrequency(channels[1].data, samplingRate)
    /\ pc' = "done"
    /\ UNCHANGED parserVars
    /\ UNCHANGED <<fftVars, serverVars>>
    /\ UNCHANGED <<channels, samplingRate, ch, pos, windowCount, psd,
                   spectralAnalyses, connectivity, riskFactors, biomarkers>>

SpikeNext == DetectSpikeFrequency

SpikeSpec == SpikeInit /\ [][SpikeNext]_vars


---------------------------------------------------------------------------
(* calculateConnectivity called directly on recordings of up to            *)
(* MaxChannels channels of up to two samples.                              *)

\* Most channels in a recording.
MaxChannels == 3

\* The channel lengths: none, one and two samples.
ConnLengths == {0, 1, 2}

ConnSamples == {-1, 2}

RECURSIVE ConnSignalsOfLen(_)
ConnSignalsOfLen(n) ==
    IF n = 0 THEN {<<>>}
    ELSE {Append(s, v) : s \in ConnSignalsOfLen(n - 1), v \in ConnSamples}

ConnSignals == UNION {ConnSignalsOfLen(n) : n \in ConnLengths}

\* The channel names of a recording, by position (repeated from the start
\* past the fourth channel).
ConnNames ==
    {<<"Fp1", "F3", "T7", "Cz">>, <<"Cz", "Pz", "O1", "Cz">>,
     <<"T7", "T8", "Fp1", "F8">>, <<"Fp1", "Fp1", "P8", "T7">>}

RECURSIVE ConnRecordingsOf(_, _)
ConnRecordingsOf(names, n) ==
    IF n = 0 THEN {<<>>}
    ELSE {Append(r, Channel(names[((n - 1) % Len(names)) + 1], s)) :
             r \in ConnRecordingsOf(names, n - 1), s \in ConnSignals}

ConnRecordings ==
    UNION {ConnRecordingsOf(names, n) : names \in ConnNames, n \in 0..MaxChannels}

ConnInit ==
    /\ channels \in ConnRecordings
    /\ samplingRate = 256
    /\ pc = "connectivity"
    /\ ch = 1
    /\ pos = I(0)
    /\ windowCount = 0
    /\ psd = EmptyMap
    /\ spectralAnalyses = <<>>
    /\ connectivity = NoConnectivity
    /\ riskFactors = NoRisk
    /\ biomarkers = <<>>
    /\ spikeRate = I(0)
    /\ ParserIdle
    /\ FftIdle
    /\ ServerIdle

ConnNext == CalculateConnectivity

ConnSpec == ConnInit /\ [][ConnNext]_vars

---------------------------------------------------------------------------
(* extractEEGFeatures and detectAnomalies called on recordings of up to    *)
(* MaxFeatureChannels channels.                                            *)

\* Most channels in a recording.
MaxFeatureChannels == 2

FeatureSamples == {-150, 60, 151}

RECURSIVE FeatureSignalsOfLen(_)
FeatureSignalsOfLen(n) ==
    IF n = 0 THEN {<<>>}
    ELSE {Append(s, v) : s \in FeatureSignalsOfLen(n - 1), v \in FeatureSamples}

\* A channel holds no, one or two samples; three samples 0 may follow none
\* or two.
FeatureSignals ==
    UNION {FeatureSignalsOfLen(n) : n \in {0, 1, 2}}
    \cup {s \o <<0, 0, 0>> : s \in UNION {FeatureSignalsOfLen(n) : n \in {0, 2}}}

\* The channel names of a recording, by position.
FeatureChannelNames == {<<"Fp1", "T7", "Fp1", "Cz">>}

RECURSIVE FeatureRecordingsOf(_, _)
FeatureRecordingsOf(names, n) ==
    IF n = 0 THEN {<<>>}
    ELSE {Append(r, Channel(names[((n - 1) % Len(names)) + 1], s)) :
             r \in FeatureRecordingsOf(names, n - 1), s \in FeatureSignals}

FeatureRecordings ==
    UNION {FeatureRecordingsOf(names, n) :
               names \in FeatureChannelNames, n \in 0..MaxFeatureChannels}

FeatureInit ==
    /\ channels \in FeatureRecordings
    /\ samplingRate = 256
    /\ pc = "parsedData"
    /\ ch = 1
    /\ pos = I(0)
    /\ windowCount = 0
    /\ psd = EmptyMap
    /\ spectralAnalyses = <<>>
    /\ connectivity = NoConnectivity
    /\ riskFactors = NoRisk
    /\ biomarkers = <<>>
    /\ spikeRate = I(0)
    /\ ParserIdle
    /\ FftIdle
    /\ ServerIdle

ExtractEEGFeatures ==
    /\ pc = "parsedData"
    /\ features' = extractEEGFeatures(channels)
    /\ pc' = "features"
    /\ UNCHANGED <<channels, file, parsed, anomalousChannels>>
    /\ UNCHANGED analysisVars
    /\ UNCHANGED <<fftVars, serverVars>>

DetectAnomalies ==
    /\ pc = "features"
    /\ anomalousChannels' = detectAnomalies(channels)
    /\ pc' = "anomalies"
    /\ UNCHANGED <<channels, file, parsed, features>>
    /\ UNCHANGED analysisVars
    /\ UNCHANGED <<fftVars, serverVars>>

FeatureNext == ExtractEEGFeatures \/ DetectAnomalies

FeatureSpec == FeatureInit /\ [][FeatureNext]_vars

---------------------------------------------------------------------------
(* parseEEGFile called on files whose content is a table of cells written  *)
(* out as delimited text: a header row and up to two data rows of up to    *)
(* MaxFields cells.                                                        *)

\* Most cells in a data row.
MaxFields == 3

HeaderRows ==
    {<<(<<"F", "p", "1">>), (<<"T", "7">>)>>,
     <<(<<"t", "i", "m", "e">>), (<<"F", "p", "1">>), (<<"T", "7">>)>>,
     <<(<<"F", "p", "1">>)>>,
     <<(<<" ", "T", "i", "m", "e", " ">>), (<<>>), (<<"C", "z">>)>>}

\* The cells of the first column of a data row: 1, x and " -2.5".
FirstCells == {<<"1">>, <<"x">>, <<" ", "-", "2", ".", "5">>}

\* The cells of the other columns: 7 and the empty cell.
OtherCells == {<<"7">>, <<>>}

RECURSIVE DataRowsOfLen(_)
DataRowsOfLen(n) ==
    IF n = 1 THEN {<<c>> : c \in FirstCells}
    ELSE {Append(r, c) : r \in DataRowsOfLen(n - 1), c \in OtherCells}

\* A data row: a blank line (one empty cell) or 1..MaxFields cells.
DataRows == {<<(<<>>)>>} \cup UNION {DataRowsOfLen(n) : n \in 1..MaxFields}

Tables ==
    {<<h>> : h \in HeaderRows}
    \cup {<<h, r>> : h \in HeaderRows, r \in DataRows}
    \cup {<<h, r, q>> : h \in HeaderRows, r \in DataRows, q \in DataRows}

\* The empty file, a file with a numeric prefix in a cell, and a file
\* whose lines end with a blank line.
OtherTables ==
    {<<(<<(<<>>)>>)>>,
     <<(<<(<<"F", "p", "1">>), (<<"T", "7">>)>>), (<<(<<"x">>), (<<"1", "x">>)>>)>>,
     <<(<<(<<"F", "p", "1">>), (<<"T", "7">>)>>), (<<(<<>>)>>)>>}

FileNames ==
    {<<"a", ".", "c", "s", "v">>, <<"a", ".", "C", "S", "V">>,
     <<"a", ".", "t", "x", "t">>, <<"a", ".", "e", "d", "f">>,
     <<"a", ".", "x", "l", "s">>, <<"a", ".", "c", "s", "v", ".", "x">>,
     <<"a">>, <<"a", ".">>, <<"c", "s", "v">>}

RECURSIVE Join(_, _)
Join(pieces, separator) ==
    IF Len(pieces) = 0 THEN <<>>
    ELSE IF Len(pieces) = 1 THEN pieces[1]
    ELSE pieces[1] \o <<separator>> \o Join(Tail(pieces), separator)

\* The text of a table: cells joined by commas, rows by line feeds.
Written(table) == Join([i \in 1..Len(table) |-> Join(table[i], ",")], "\n")

Files ==
    {[name |-> <<"a", ".", "c", "s", "v">>, content |-> Written(t), written |-> t] :
        t \in Tables}
    \cup {[name |-> n, content |-> Written(t), written |-> t] :
             n \in FileNames, t \in OtherTables \cup {<<h, <<(<<"1">>), (<<"7">>)>>>> :
                                                        h \in HeaderRows}}

ParseInit ==
    /\ channels = <<>>
    /\ samplingRate = 256
    /\ pc = "file"
    /\ ch = 1
    /\ pos = I(0)
    /\ windowCount = 0
    /\ psd = EmptyMap
    /\ spectralAnalyses = <<>>
    /\ connectivity = NoConnectivity
    /\ riskFactors = NoRisk
    /\ biomarkers = <<>>
    /\ spikeRate = I(0)
    /\ file \in Files
    /\ parsed = NotParsed
    /\ features = <<>>
    /\ anomalousChannels = <<>>
    /\ FftIdle
    /\ ServerIdle

ParseEEGFile ==
    /\ pc = "file"
    /\ parsed' \in parseEEGFileOutcomes(file)
    /\ pc' = "parsed"
    /\ UNCHANGED <<channels, file, features, anomalousChannels>>
    /\ UNCHANGED analysisVars
    /\ UNCHANGED <<fftVars, serverVars>>

ParseNext == ParseEEGFile

ParseSpec == ParseInit /\ [][ParseNext]_vars

---------------------------------------------------------------------------
(* fft of advancedEEGAnalysis.ts, called directly on signals of up to      *)
(* MaxFftLen samples.                                                      *)

\* Math.exp(-2 * Math.PI * k / N) for 0 <= k < N / 2: with y = pi * k / (2 N)
\* in units of 1/10000, the fourth power of the Pade approximant
\* (12 - 6y + y^2) / (12 + 6y + y^2) of exp(-y), rounded down to 1/100
\* (exact for k = 0).
Twiddle(k, N) ==
    LET y == (15708 * k) \div N
        num == 1200000000 - 60000 * y + y * y
        den == 1200000000 + 60000 * y + y * y
        q == num \div (den \div 10000)
        q2 == (q * q) \div 10000
        q4 == (q2 * q2) \div 10000
    IN  Q(q4 \div 100, 100)

\* array.slice(0, n)
Take(array, n) == SubSeq(array, 1, MinInt(n, Len(array)))

\* array[k - 1] as an operand of arithmetic: undefined counts as NaN.
At(array, k) == IF k \in 1..Len(array) THEN array[k] ELSE NaN

RECURSIVE fft(_)

\* The odd-length branch of fft without the slice.
fftOdd_NoSlice(signal) == fft(Append(signal, I(0)))

\* The odd-length branch of fft: fft([...signal, 0]).slice(0, N)
fftOdd(signal) == Take(fft(Append(signal, I(0))), Len(signal))

\* The even-length branch of fft: the butterflies over the transforms of
\* the even-indexed and the odd-indexed samples.
fftEven(signal) ==
    LET N == Len(signal)
        half == N \div 2
    IN  Strict2(LAMBDA even, odd :
                    [n \in 1..N |->
                        IF n <= half
                        THEN Add(At(even, n), Mul(Twiddle(n - 1, N), At(odd, n)))
                        ELSE Sub(At(even, n - half),
                                 Mul(Twiddle(n - half - 1, N), At(odd, n - half)))],
                fft([i \in 1..half |-> signal[2 * i - 1]]),
                fft([i \in 1..half |-> signal[2 * i]]))

fft(signal) ==
    IF Len(signal) <= 1 THEN signal
    ELSE IF Len(signal) % 2 # 0 THEN fftOdd(signal)
    ELSE fftEven(signal)

\* Longest signal given to fft.
MaxFftLen == 6

FftSamples == {-1, 2}

RECURSIVE FftSignalsOfLen(_)
FftSignalsOfLen(n) ==
    IF n = 0 THEN {<<>>}
    ELSE {Append(s, I(v)) : s \in FftSignalsOfLen(n - 1), v \in FftSamples}

\* The values every other variable has while fft or the back end is at work.
AnalysisIdle ==
    /\ channels = <<>>
    /\ samplingRate = 256
    /\ ch = 1
    /\ pos = I(0)
    /\ windowCount = 0
    /\ psd = EmptyMap
    /\ spectralAnalyses = <<>>
    /\ connectivity = NoConnectivity
    /\ riskFactors = NoRisk
    /\ biomarkers = <<>>
    /\ spikeRate = I(0)

FftInit ==
    /\ fftSignal \in UNION {FftSignalsOfLen(n) : n \in 0..MaxFftLen}
    /\ fftOut = <<>>
    /\ pc = "fft"
    /\ AnalysisIdle
    /\ ParserIdle
    /\ ServerIdle

\* A call of fft.
Fft ==
    /\ pc = "fft"
    /\ fftOut' = fft(fftSignal)
    /\ pc' = "transformed"
    /\ UNCHANGED <<channels, fftSignal>>
    /\ UNCHANGED <<analysisVars, parserVars, serverVars>>

FftNext == Fft

FftSpec == FftInit /\ [][FftNext]_vars

---------------------------------------------------------------------------
(* The Convex back end: the tables users, projects and eegAnalyses and the *)
(* mutations of projects.ts and eegAnalyses.ts.  A document is a record of *)
(* the fields the functions read or write; a table maps _id to document.   *)
(* A mutation is a transaction: a handler that throws leaves no write.     *)

\* ctx.auth.getUserIdentity() of an unauthenticated caller.
Null == "null"

\* The schema of src/convex/schema.ts: users and projects (eegAnalyses is
\* not defined there, and a table without a definition is not validated).
SchemaTs ==
    [users |-> {"name", "email", "projectIds", "tokenIdentifier"},
     projects |-> {"name", "description", "owner", "createdAt", "updatedAt"}]

\* The schema that defines eegAnalyses.
SchemaWithAnalyses ==
    [users |-> {"name", "email", "projectIds", "tokenIdentifier"},
     projects |-> {"name", "description", "owner", "createdAt", "updatedAt"},
     eegAnalyses |-> {"projectId", "patientName", "patientId", "age", "gender",
                      "fileName", "fileStorageId", "riskScore", "riskLevel",
                      "channelsAnalyzed", "abnormalSegments", "modelAccuracy",
                      "confidence", "aiModel", "waveformData", "shapValues",
                      "brainMapData", "modelMetrics", "createdAt", "status"}]

Schemas == {SchemaTs, SchemaWithAnalyses}

\* ctx.db.insert / ctx.db.patch check the fields written against the
\* table's definition: a field the definition does not list is rejected.
Accepts(tableName, fields) ==
    tableName \in DOMAIN schema => fields \subseteq schema[tableName]

\* The table after ctx.db.insert of doc under the _id nextId.
Insert(table, doc) ==
    [id \in DOMAIN table \cup {nextId} |-> IF id = nextId THEN doc ELSE table[id]]

\* The document after ctx.db.patch(id, fields).
Patch(doc, fields) ==
    [f \in DOMAIN doc \cup DOMAIN fields |->
        IF f \in DOMAIN fields THEN fields[f] ELSE doc[f]]

\* The table after ctx.db.delete(id).
Delete(table, id) == [x \in DOMAIN table \ {id} |-> table[x]]

\* ctx.db.query("users").filter(tokenIdentifier = identity.subject)
UsersWithToken(subject) ==
    {u \in DOMAIN users : users[u].tokenIdentifier = subject}

\* user.projectIds || []
ProjectIdsOf(user) == IF "projectIds" \in DOMAIN user THEN user.projectIds ELSE <<>>

\* deleteProject keeping every id of the array.
WithoutProject_KeepAll(projectIds, projectId) == projectIds

\* (user.projectIds || []).filter((id) => id !== projectId)
WithoutProject(projectIds, projectId) ==
    SelectSeq(projectIds, LAMBDA id : id # projectId)

\* The call made, and how it ended: "ok" or the error thrown.
Called(fn, identity, outcome) == [fn |-> fn, identity |-> identity, outcome |-> outcome]

\* A handler that throws: the transaction writes nothing.
Fail(fn, identity, error) ==
    /\ call' = Called(fn, identity, error)
    /\ UNCHANGED <<users, projects, eegAnalyses, nextId>>

\* Most documents ctx.db.insert creates in one run.
MaxInserts == 4

\* ctx.db.insert can hand out another _id.
CanInsert == nextId - Cardinality(DOMAIN users) <= MaxInserts

createProject(identity) ==
    IF identity = Null THEN Fail("createProject", identity, "User not authenticated")
    ELSE IF Cardinality(UsersWithToken(identity)) > 1
    THEN Fail("createProject", identity, "unique() returned more than one result")
    ELSE IF UsersWithToken(identity) = {}
    THEN Fail("createProject", identity, "User profile not found")
    ELSE IF ~Accepts("projects", {"name", "description", "owner", "createdAt", "updatedAt"})
            \/ ~Accepts("users", {"projectIds"})
    THEN Fail("createProject", identity, "does not match the schema")
    ELSE LET user == CHOOSE u \in UsersWithToken(identity) : TRUE
         IN  /\ CanInsert
             /\ projects' = Insert(projects, [owner |-> user])
             /\ users' = [users EXCEPT ![user] =
                             Patch(@, [projectIds |-> Append(ProjectIdsOf(@), nextId)])]
             /\ nextId' = nextId + 1
             /\ call' = Called("createProject", identity, "ok")
             /\ UNCHANGED eegAnalyses

deleteProject(identity, projectId) ==
    IF identity = Null THEN Fail("deleteProject", identity, "Not authenticated")
    ELSE IF Cardinality(UsersWithToken(identity)) > 1
    THEN Fail("deleteProject", identity, "unique() returned more than one result")
    ELSE IF UsersWithToken(identity) = {}
    THEN Fail("deleteProject", identity, "User profile not found")
    ELSE IF projectId \notin DOMAIN projects
    THEN Fail("deleteProject", identity, "Project not found")
    ELSE IF projects[projectId].owner \notin UsersWithToken(identity)
    THEN Fail("deleteProject", identity, "Unauthorized to delete this project")
    ELSE IF ~Accepts("users", {"projectIds"})
    THEN Fail("deleteProject", identity, "does not match the schema")
    ELSE LET user == CHOOSE u \in UsersWithToken(identity) : TRUE
         IN  /\ users' = [users EXCEPT ![user] =
                             Patch(@, [projectIds |->
                                          WithoutProject(ProjectIdsOf(@), projectId)])]
             /\ projects' = Delete(projects, projectId)
             /\ call' = Called("deleteProject", identity, "ok")
             /\ UNCHANGED <<eegAnalyses, nextId>>

\* The fields createAnalysis inserts.
NewAnalysis(projectId) ==
    [projectId |-> projectId, riskScore |-> I(0), riskLevel |-> "pending",
     channelsAnalyzed |-> 0, abnormalSegments |-> I(0), confidence |-> I(0),
     status |-> "pending"]

createAnalysis(identity, projectId) ==
    IF identity = Null THEN Fail("createAnalysis", identity, "Not authenticated")
    ELSE IF projectId \notin DOMAIN projects
    THEN Fail("createAnalysis", identity, "Project not found")
    ELSE IF Cardinality(UsersWithToken(identity)) > 1
    THEN Fail("createAnalysis", identity, "unique() returned more than one result")
    ELSE IF UsersWithToken(identity) = {}
            \/ projects[projectId].owner \notin UsersWithToken(identity)
    THEN Fail("createAnalysis", identity, "Unauthorized")
    ELSE IF ~Accepts("eegAnalyses",
                     {"projectId", "patientName", "patientId", "age", "gender",
                      "fileName", "riskScore", "riskLevel", "channelsAnalyzed",
                      "abnormalSegments", "modelAccuracy", "confidence", "aiModel",
                      "createdAt", "status"})
    THEN Fail("createAnalysis", identity, "does not match the schema")
    ELSE /\ CanInsert
         /\ eegAnalyses' = Insert(eegAnalyses, NewAnalysis(projectId))
         /\ nextId' = nextId + 1
         /\ call' = Called("createAnalysis", identity, "ok")
         /\ UNCHANGED <<users, projects>>

deleteAnalysis(identity, analysisId) ==
    IF identity = Null THEN Fail("deleteAnalysis", identity, "Not authenticated")
    ELSE IF analysisId \notin DOMAIN eegAnalyses
    THEN Fail("deleteAnalysis", identity, "Analysis not found")
    ELSE /\ eegAnalyses' = Delete(eegAnalyses, analysisId)
         /\ call' = Called("deleteAnalysis", identity, "ok")
         /\ UNCHANGED <<users, projects, nextId>>

\* ctx.db.patch(analysisId, updates) throws for a document that does not
\* exist and for a field the table's definition does not list.
PatchThrows(analysisId, updates) ==
    analysisId \notin DOMAIN eegAnalyses \/ ~Accepts("eegAnalyses", DOMAIN updates)

\* The handler of updateAnalysisResults: the table after
\* ctx.db.patch(analysisId, updates).
updateAnalysisResults(analysisId, updates) ==
    [eegAnalyses EXCEPT ![analysisId] = Patch(@, updates)]

UpdateAnalysisResults(identity, analysisId, updates) ==
    IF PatchThrows(analysisId, updates)
    THEN Fail("updateAnalysisResults", identity, "patch rejected")
    ELSE /\ eegAnalyses' = updateAnalysisResults(analysisId, updates)
         /\ call' = Called("updateAnalysisResults", identity, "ok")
         /\ UNCHANGED <<users, projects, nextId>>

\* processEEGData given well-formed JSON of channelCount channels.
processEEGData(identity, analysisId, channelCount) ==
    IF analysisId \notin DOMAIN eegAnalyses
       \/ ~Accepts("eegAnalyses",
                   {"channelsAnalyzed", "modelAccuracy", "waveformData", "shapValues",
                    "brainMapData", "modelMetrics", "status"})
    THEN Fail("processEEGData", identity, "patch rejected")
    ELSE /\ eegAnalyses' = [eegAnalyses EXCEPT ![analysisId] =
                               Patch(@, [channelsAnalyzed |-> channelCount,
                                         status |-> "processing"])]
         /\ call' = Called("processEEGData", identity, "ok")
         /\ UNCHANGED <<users, projects, nextId>>


\* The callers: unauthenticated, two users with a profile, one without.
Identities == {Null, "alice", "bob", "carol"}

\* The users table as createUser (users.ts) fills it: no projectIds yet.
\* In the second table two profiles carry the same tokenIdentifier.
UserTables ==
    {<<[tokenIdentifier |-> "alice"], [tokenIdentifier |-> "bob"]>>,
     <<[tokenIdentifier |-> "alice"], [tokenIdentifier |-> "bob"],
       [tokenIdentifier |-> "bob"]>>}

\* Arguments of updateAnalysisResults, with and without keyBiomarkers.
UpdateArgs ==
    {[riskScore |-> I(40), riskLevel |-> "Moderate", abnormalSegments |-> I(2),
      confidence |-> I(90), status |-> "completed"],
     [riskScore |-> I(40), riskLevel |-> "Moderate", abnormalSegments |-> I(2),
      confidence |-> I(90), keyBiomarkers |-> <<"Alpha Power Reduction">>,
      status |-> "completed"]}

\* Every _id handed out so far.
Ids == 1..(nextId - 1)

ProjectInit ==
    /\ users \in UserTables
    /\ projects = <<>>
    /\ eegAnalyses = <<>>
    /\ nextId = Len(users) + 1
    /\ schema \in Schemas
    /\ call = NoCall
    /\ aiRun = NoCall
    /\ pc = "server"
    /\ AnalysisIdle
    /\ ParserIdle
    /\ FftIdle

\* What a mutation leaves alone besides the tables.
ServerRest == <<channels, pc, schema, aiRun, analysisVars, parserVars, fftVars>>

CreateProject ==
    /\ pc = "server"
    /\ \E identity \in Identities : createProject(identity)
    /\ UNCHANGED ServerRest

DeleteProject ==
    /\ pc = "server"
    /\ \E identity \in Identities, projectId \in Ids : deleteProject(identity, projectId)
    /\ UNCHANGED ServerRest

CreateAnalysis ==
    /\ pc = "server"
    /\ \E identity \in Identities, projectId \in Ids : createAnalysis(identity, projectId)
    /\ UNCHANGED ServerRest

DeleteAnalysis ==
    /\ pc = "server"
    /\ \E identity \in Identities, analysisId \in Ids : deleteAnalysis(identity, analysisId)
    /\ UNCHANGED ServerRest

UpdateAnalysisResultsCall ==
    /\ pc = "server"
    /\ \E identity \in Identities, analysisId \in Ids, updates \in UpdateArgs :
           UpdateAnalysisResults(identity, analysisId, updates)
    /\ UNCHANGED ServerRest

ProcessEEGData ==
    /\ pc = "server"
    /\ \E identity \in Identities, analysisId \in Ids :
           processEEGData(identity, analysisId, 2)
    /\ UNCHANGED ServerRest

\* createProject and deleteProject called in any order by any caller.
ProjectNext == CreateProject \/ DeleteProject

ProjectSpec == ProjectInit /\ [][ProjectNext]_vars

\* The back end after alice has created two projects and bob one.
AnalysesInit ==
    /\ users = <<[tokenIdentifier |-> "alice", projectIds |-> <<3, 5>>],
                 [tokenIdentifier |-> "bob", projectIds |-> <<4>>]>>
    /\ projects = (3 :> [owner |-> 1]) @@ (4 :> [owner |-> 2]) @@ (5 :> [owner |-> 1])
    /\ eegAnalyses = <<>>
    /\ nextId = 6
    /\ schema \in Schemas
    /\ call = NoCall
    /\ aiRun = NoCall
    /\ pc = "server"
    /\ AnalysisIdle
    /\ ParserIdle
    /\ FftIdle

\* The mutations of eegAnalyses.ts called in any order by any caller.
AnalysesNext ==
    \/ CreateAnalysis
    \/ DeleteAnalysis
    \/ UpdateAnalysisResultsCall
    \/ ProcessEEGData

AnalysesSpec == AnalysesInit /\ [][AnalysesNext]_vars

---------------------------------------------------------------------------
(* analyzeEEGWithAI of convex/ai.ts: an action, whose handler runs in      *)
(* steps: up to the fetch, from the reply of the Gemini API to the         *)
(* mutation that stores the results, and the catch block.                  *)

\* Math.round(a) for a >= 0
MathRound(a) == IF IsFinite(a) THEN I((2 * a[1] + a[2]) \div (2 * a[2])) ELSE a

\* The metrics performAdvancedAnalysis returns for the channel profiles sa
\* and the connectivity conn.
AdvancedMetrics(sa, conn) ==
    Strict1(LAMBDA risk :
                [spectralAnalyses |-> sa, connectivity |-> conn,
                 riskFactors |-> risk, schizophreniaRiskScore |-> risk.score],
            calculateSchizophreniaRisk(sa, conn))

\* The keyBiomarkers list of performAdvancedRuleBasedAnalysis.
KeyBiomarkers(advancedMetrics) ==
    (IF Gt(advancedMetrics.riskFactors.deltaTheta, I(12))
     THEN <<"Excessive Delta-Theta Slowing">> ELSE <<>>)
    \o (IF Gt(advancedMetrics.riskFactors.reducedAlpha, I(12))
        THEN <<"Alpha Power Reduction">> ELSE <<>>)
    \o (IF Gt(advancedMetrics.riskFactors.connectivity, I(10))
        THEN <<"Reduced Brain Connectivity">> ELSE <<>>)
    \o (IF Gt(advancedMetrics.riskFactors.anomalies, I(15))
        THEN <<"Abnormal Spike Activity">> ELSE <<>>)
    \o (IF Lt(advancedMetrics.connectivity.synchronization, Q(1, 4))
        THEN <<"Inter-hemispheric Desynchronization">> ELSE <<>>)

performAdvancedRuleBasedAnalysis(advancedMetrics) ==
    Strict1(LAMBDA riskScore :
                [riskScore |-> riskScore,
                 riskLevel |-> IF Le(riskScore, I(30)) THEN "Low"
                               ELSE IF Le(riskScore, I(60)) THEN "Moderate"
                               ELSE "High",
                 abnormalSegments |->
                     MathRound(Div(advancedMetrics.riskFactors.anomalies, Q(5, 2))),
                 confidence |->
                     MathRound(MathMin(I(95),
                                       Add(I(70),
                                           Mul(Div(I(Len(advancedMetrics.spectralAnalyses)),
                                                   I(32)),
                                               I(25))))),
                 keyBiomarkers |-> Take(KeyBiomarkers(advancedMetrics), 4)],
            MathRound(advancedMetrics.schizophreniaRiskScore))

\* The arguments analyzeEEGWithAI gives to updateAnalysisResults for the
\* results r.  JSON.stringify(undefined) is undefined: without keyBiomarkers
\* in r there is none in the arguments.
ResultUpdates(r) ==
    [f \in (DOMAIN r \cap {"riskScore", "riskLevel", "abnormalSegments", "confidence",
                           "keyBiomarkers"}) \cup {"status"} |->
        IF f = "status" THEN "completed"
        ELSE IF f = "keyBiomarkers" THEN [json |-> r[f]]
        ELSE r[f]]

\* The argument validator of updateAnalysisResults: analysisId, riskScore,
\* riskLevel, abnormalSegments, confidence and status are required.
ValidUpdateArgs(updates) ==
    {"riskScore", "riskLevel", "abnormalSegments", "confidence", "status"}
        \subseteq DOMAIN updates

\* ctx.runMutation(api.eegAnalyses.updateAnalysisResults, ...) throws.
RunMutationThrows(analysisId, updates) ==
    ~ValidUpdateArgs(updates) \/ PatchThrows(analysisId, updates)

\* What the fetch and the reading of the reply can come to.
Responses ==
    {[kind |-> "fetch rejects"],
     [kind |-> "response not ok"],
     [kind |-> "no candidates"],
     [kind |-> "no text"],
     [kind |-> "no JSON in text"],
     [kind |-> "JSON.parse throws"],
     [kind |-> "parsed",
      aiResults |-> [riskScore |-> I(42), riskLevel |-> "Moderate",
                     abnormalSegments |-> I(3), confidence |-> I(90),
                     keyBiomarkers |-> <<"Alpha Power Reduction">>]],
     [kind |-> "parsed",
      aiResults |-> [riskScore |-> I(42), riskLevel |-> "Moderate",
                     abnormalSegments |-> I(3), confidence |-> I(90)]],
     [kind |-> "parsed",
      aiResults |-> [riskLevel |-> "Moderate",
                     keyBiomarkers |-> <<"Alpha Power Reduction">>]]}

\* The handler returns the results r.
AiReturns(r) ==
    /\ pc' = "returned"
    /\ aiRun' = [aiRun EXCEPT !.result = r]

\* The handler stores the results r and returns them, or its mutation
\* throws and control goes to onThrow.
AiStore(r, onThrow) ==
    IF RunMutationThrows(aiRun.analysisId, ResultUpdates(r))
    THEN /\ pc' = onThrow
         /\ Fail("updateAnalysisResults", aiRun.identity, "mutation rejected")
         /\ UNCHANGED aiRun
    ELSE /\ UpdateAnalysisResults(aiRun.identity, aiRun.analysisId, ResultUpdates(r))
         /\ AiReturns(r)

\* What no step of analyzeEEGWithAI changes.
AiRest == <<channels, schema, analysisVars, parserVars, fftVars>>

\* Lines 17-37 and 39-128: without an API key the fallback results are
\* stored; with one the request is sent.
AiStart ==
    /\ pc = "action"
    /\ IF aiRun.geminiApiKey = Null
       THEN AiStore(performAdvancedRuleBasedAnalysis(aiRun.advancedMetrics), "catch")
       ELSE /\ pc' = "fetch"
            /\ UNCHANGED <<users, projects, eegAnalyses, nextId, call, aiRun>>
    /\ UNCHANGED AiRest

\* Lines 130-165: the reply is read; anything but parsed results throws.
AiFetch ==
    /\ pc = "fetch"
    /\ \E response \in Responses :
           IF response.kind = "parsed"
           THEN AiStore(response.aiResults, "catch")
           ELSE /\ pc' = "catch"
                /\ UNCHANGED <<users, projects, eegAnalyses, nextId, call, aiRun>>
    /\ UNCHANGED AiRest

\* Lines 166-185: the catch block stores the fallback results; a throw
\* from it ends the action with an error.
AiCatch ==
    /\ pc = "catch"
    /\ AiStore(performAdvancedRuleBasedAnalysis(aiRun.advancedMetrics), "failed")
    /\ UNCHANGED AiRest

\* The record analyzeEEGWithAI is called for, as processEEGData leaves it.
ProcessingAnalysis ==
    Patch(NewAnalysis(3), [channelsAnalyzed |-> 1, status |-> "processing"])

AiMetrics ==
    {AdvancedMetrics(<<q>>, [NoConnectivity EXCEPT !.synchronization = y]) :
        q \in RiskProfiles, y \in {I(0), I(1)}}

\* analyzeEEGWithAI is called for the analysis 6 of alice's project 3,
\* which exists or has been deleted, with or without an API key.
AiInit ==
    /\ users = <<[tokenIdentifier |-> "alice", projectIds |-> <<3, 5>>],
                 [tokenIdentifier |-> "bob", projectIds |-> <<4>>]>>
    /\ projects = (3 :> [owner |-> 1]) @@ (4 :> [owner |-> 2]) @@ (5 :> [owner |-> 1])
    /\ eegAnalyses \in {<<>>, (6 :> ProcessingAnalysis)}
    /\ nextId = 7
    /\ schema \in Schemas
    /\ call = NoCall
    /\ aiRun \in {[fn |-> "analyzeEEGWithAI", identity |-> "alice", analysisId |-> 6,
                   advancedMetrics |-> m, geminiApiKey |-> k, result |-> Null] :
                     m \in AiMetrics, k \in {Null, "key"}}
    /\ pc = "action"
    /\ AnalysisIdle
    /\ ParserIdle
    /\ FftIdle

AiNext == AiStart \/ AiFetch \/ AiCatch

AiSpec == AiInit /\ [][AiNext]_vars

---------------------------------------------------------------------------
(* analyzeChannelSpectrum on channels of 512 samples and more, for which   *)
(* calculatePSD takes windows of 512 samples every 256 samples.            *)

\* Channel lengths around the lengths at which one more window fits.
WelchLengths == {512, 513, 767, 768, 1023, 1024}

\* Sample values of the long channels.
WelchSamples == {-1, 0, 2}

\* A channel of n samples: a up to the 300th and b from there on.
WelchSignal(n, a, b) == [i \in 1..n |-> IF i <= 300 THEN a ELSE b]

WelchInit ==
    /\ channels \in {<<Channel("Fp1", WelchSignal(n, a, b))>> :
                        n \in WelchLengths, a \in WelchSamples, b \in WelchSamples}
    /\ samplingRate = 256
    /\ pc = "psd"
    /\ ch = 1
    /\ pos = I(0)
    /\ windowCount = 0
    /\ psd = EmptyMap
    /\ spectralAnalyses = <<>>
    /\ connectivity = NoConnectivity
    /\ riskFactors = NoRisk
    /\ biomarkers = <<>>
    /\ spikeRate = I(0)
    /\ ParserIdle
    /\ FftIdle
    /\ ServerIdle

\* The loop of calculatePSD has ended: the averaging loop, and the return.
PSDAverage ==
    /\ pc = "psd"
    /\ ~WindowFits(channels[ch].data, pos)
    /\ psd' = Average(psd, windowCount)
    /\ pc' = "averaged"
    /\ UNCHANGED parserVars
    /\ UNCHANGED <<fftVars, serverVars>>
    /\ UNCHANGED <<channels, samplingRate, ch, pos, windowCount, spectralAnalyses,
                   connectivity, riskFactors, biomarkers, spikeRate>>

WelchNext == PSDWindow \/ PSDAverage

WelchSpec == WelchInit /\ [][WelchNext]_vars

---------------------------------------------------------------------------
(* performAdvancedAnalysis on recordings whose samples ride on an offset:  *)
(* the mean of the signal is far from 0 next to its fluctuation.           *)

\* Longest channel of an offset recording.
MaxOffsetLen == 5

OffsetSamples == {5, 6}

RECURSIVE OffsetSignalsOfLen(_)
OffsetSignalsOfLen(n) ==
    IF n = 0 THEN {<<>>}
    ELSE {Append(s, v) : s \in OffsetSignalsOfLen(n - 1), v \in OffsetSamples}

OffsetInit ==
    /\ channels \in {<<Channel("Fp1", s)>> :
                        s \in UNION {OffsetSignalsOfLen(n) : n \in 1..MaxOffsetLen}}
    /\ samplingRate \in {8, 20}
    /\ pc = "psd"
    /\ ch = 1
    /\ pos = I(0)
    /\ windowCount = 0
    /\ psd = EmptyMap
    /\ spectralAnalyses = <<>>
    /\ connectivity = NoConnectivity
    /\ riskFactors = NoRisk
    /\ biomarkers = <<>>
    /\ spikeRate = I(0)
    /\ ParserIdle
    /\ FftIdle
    /\ ServerIdle

OffsetSpec == OffsetInit /\ [][Next]_vars

---------------------------------------------------------------------------
(* Properties.                                                             *)

\* The inputs of calculateSchizophreniaRisk are a non-empty list of profiles
\* with finite deltaTheta, alphaAbsolute, complexity and spikeFrequency, and
\* a finite synchronization.
FiniteInputs ==
    /\ Len(spectralAnalyses) >= 1
    /\ \A i \in 1..Len(spectralAnalyses) :
           /\ IsFinite(spectralAnalyses[i].deltaTheta)
           /\ IsFinite(spectralAnalyses[i].alphaAbsolute)
           /\ IsFinite(spectralAnalyses[i].complexity)
           /\ IsFinite(spectralAnalyses[i].spikeFrequency)
    /\ IsFinite(connectivity.synchronization)

\* C1: for every non-empty list of profiles with finite values and every
\* finite synchronization, the score returned by calculateSchizophreniaRisk
\* lies in [0, 100].
C1_ScoreInRange ==
    (pc = "done" /\ FiniteInputs) => InRange(riskFactors.score, I(0), I(100))

\* C1 witness: finite inputs for which the score reaches the top of the range.
C1_Witness ==
    pc = "done" /\ FiniteInputs /\ Len(spectralAnalyses) >= 2 /\ riskFactors.score = I(100)

\* Every channel of the recording has samples and all of them are 0.
AllZeroRecording ==
    /\ Len(channels) >= 1
    /\ \A c \in 1..Len(channels) :
           /\ Len(channels[c].data) >= 1
           /\ \A k \in 1..Len(channels[c].data) : channels[c].data[k] = 0

\* C2 as claimed: for a recording whose channels hold only zero samples,
\* performAdvancedAnalysis yields schizophreniaRiskScore = 0.
C2_AllZeroScoreIsZero ==
    (pc = "done" /\ AllZeroRecording) => schizophreniaRiskScore = I(0)

\* C2 as amended: for a recording of at least one channel whose channels each
\* hold at least one sample, all 0, performAdvancedAnalysis yields the
\* sub-scores deltaTheta = 0, reducedAlpha = 20, connectivity = 15 and
\* anomalies = 0, a complexity sub-score in [0, 15], and a score that is the
\* sum of the five and lies in [35, 50].
C2_AllZeroScore ==
    (pc = "done" /\ AllZeroRecording) =>
        /\ riskFactors.deltaTheta = I(0)
        /\ riskFactors.reducedAlpha = I(20)
        /\ riskFactors.connectivity = I(15)
        /\ riskFactors.anomalies = I(0)
        /\ InRange(riskFactors.complexity, I(0), I(15))
        /\ schizophreniaRiskScore =
               Add(Add(Add(Add(riskFactors.deltaTheta, riskFactors.reducedAlpha),
                           riskFactors.complexity), riskFactors.connectivity),
                   riskFactors.anomalies)
        /\ InRange(schizophreniaRiskScore, I(35), I(50))

\* C2 witness: the analysis of an all-zero two-channel recording has ended.
C2_Witness ==
    pc = "done" /\ AllZeroRecording /\ Len(channels) = 2 /\ Len(channels[1].data) = 2

\* C3: for finite inputs the five sub-scores are capped each on its own:
\* deltaTheta in [0,25], reducedAlpha in [0,20], complexity in [0,15],
\* connectivity in [0,15], anomalies in [0,25].
C3_SubScoresCapped ==
    (pc = "done" /\ FiniteInputs) =>
        /\ InRange(riskFactors.deltaTheta, I(0), I(25))
        /\ InRange(riskFactors.reducedAlpha, I(0), I(20))
        /\ InRange(riskFactors.complexity, I(0), I(15))
        /\ InRange(riskFactors.connectivity, I(0), I(15))
        /\ InRange(riskFactors.anomalies, I(0), I(25))

\* C3 witness: one sub-score at its cap while another is at its floor, for
\* averages beyond both.
C3_Witness ==
    /\ pc = "done" /\ FiniteInputs
    /\ Gt(AvgDeltaTheta(spectralAnalyses), Q(17, 10))
    /\ riskFactors.deltaTheta = I(25)
    /\ Gt(AvgAlpha(spectralAnalyses), I(4))
    /\ riskFactors.reducedAlpha = I(0)

\* The sum of the five sub-scores of a result.
SubScoreSum(r) ==
    Add(Add(Add(Add(r.deltaTheta, r.reducedAlpha), r.complexity), r.connectivity),
        r.anomalies)

\* C4: the composite score equals clamp(deltaTheta + reducedAlpha +
\* complexity + connectivity + anomalies, 0, 100) of the sub-scores of the
\* same result (whenever these are numbers).
C4_ScoreIsClampedSum ==
    (/\ pc = "done"
     /\ ~IsNaN(riskFactors.deltaTheta) /\ ~IsNaN(riskFactors.reducedAlpha)
     /\ ~IsNaN(riskFactors.complexity) /\ ~IsNaN(riskFactors.connectivity)
     /\ ~IsNaN(riskFactors.anomalies))
    => riskFactors.score = MathMax(I(0), MathMin(I(100), SubScoreSum(riskFactors)))

\* C4 witness: a result whose five sub-scores are all strictly inside their
\* ranges.
C4_Witness ==
    /\ pc = "done"
    /\ riskFactors.deltaTheta = Q(25, 2)
    /\ riskFactors.reducedAlpha = I(10)
    /\ riskFactors.complexity = Q(15, 2)
    /\ riskFactors.connectivity = Q(15, 2)
    /\ riskFactors.anomalies = Q(25, 2)
    /\ riskFactors.score = I(50)

\* The sum of the five absolute band powers of a profile.
TotalPower(profile) ==
    Add(Add(Add(Add(profile.bands.delta.power, profile.bands.theta.power),
                profile.bands.alpha.power), profile.bands.beta.power),
        profile.bands.gamma.power)

BandNames == {"delta", "theta", "alpha", "beta", "gamma"}

\* C5 as claimed: when the sum of the five absolute band powers is 0, every
\* band's relative power is returned as 0.
C5_ZeroTotalRelativeIsZero ==
    \A i \in 1..Len(spectralAnalyses) :
        TotalPower(spectralAnalyses[i]) = I(0) =>
            \A b \in BandNames : spectralAnalyses[i].bands[b].relative = I(0)

\* C6: whenever the sum of the five absolute band powers is greater than 0,
\* each relative power lies in [0, 100] and the five relative powers sum to 100.
C6_RelativeSumsTo100 ==
    \A i \in 1..Len(spectralAnalyses) :
        Gt(TotalPower(spectralAnalyses[i]), I(0)) =>
            /\ \A b \in BandNames :
                   InRange(spectralAnalyses[i].bands[b].relative, I(0), I(100))
            /\ Add(Add(Add(Add(spectralAnalyses[i].bands.delta.relative,
                               spectralAnalyses[i].bands.theta.relative),
                           spectralAnalyses[i].bands.alpha.relative),
                       spectralAnalyses[i].bands.beta.relative),
                   spectralAnalyses[i].bands.gamma.relative) = I(100)

\* C6 witness: a profile whose power is spread over three bands.
C6_Witness ==
    \E i \in 1..Len(spectralAnalyses) :
        /\ Gt(spectralAnalyses[i].bands.delta.power, I(0))
        /\ Gt(spectralAnalyses[i].bands.theta.power, I(0))
        /\ Gt(spectralAnalyses[i].bands.alpha.power, I(0))
        /\ Lt(spectralAnalyses[i].bands.theta.relative, I(100))

\* A single-channel recording with samples, all 0, whose profile has been
\* returned by analyzeChannelSpectrum.
AllZeroProfiled ==
    Len(channels) = 1 /\ AllZeroRecording /\ Len(spectralAnalyses) = 1

\* C7 as claimed: for an all-zero single-channel signal of any length,
\* analyzeChannelSpectrum returns complexity = 0.
C7_AllZeroComplexityIsZero ==
    AllZeroProfiled => spectralAnalyses[1].complexity = I(0)

\* C8: for an all-zero single-channel signal, analyzeChannelSpectrum returns
\* all five absolute band powers equal to 0, deltaTheta = 0 and
\* spikeFrequency = 0.
C8_AllZeroPowersAndSpikes ==
    AllZeroProfiled =>
        /\ \A b \in BandNames : spectralAnalyses[1].bands[b].power = I(0)
        /\ spectralAnalyses[1].deltaTheta = I(0)
        /\ spectralAnalyses[1].spikeFrequency = I(0)

\* C8 witness: the profile of an all-zero channel of several samples.
C8_Witness == AllZeroProfiled /\ Len(channels[1].data) >= 3

\* C9 as claimed: for a channel with zero samples and for a channel with
\* exactly one sample, analyzeChannelSpectrum (the windowing loop of
\* calculatePSD) terminates and returns a result.
C9_ShortChannelTerminates ==
    (Len(channels) = 1 /\ Len(channels[1].data) <= 1 /\ pc = "psd")
        ~> (Len(spectralAnalyses) = 1)

\* The number of maximal runs of consecutive samples strictly above
\* mean + 3 * stdDev.
RunsV(signal, mean, var) ==
    Cardinality({i \in 1..Len(signal) :
                    /\ AboveThreshold(signal[i], mean, var)
                    /\ (i = 1 \/ ~AboveThreshold(signal[i - 1], mean, var))})

Runs(signal) ==
    Strict1(LAMBDA mean : Strict3(RunsV, signal, mean, MeanSquare(signal, mean)),
            SignalMean(signal))

\* C10: for a signal with exactly k disjoint maximal runs of consecutive
\* samples strictly above mean + 3 * stdDev, the spike count is k whatever
\* the length of each run, and the returned rate is k / (N / samplingRate).
C10_SpikeCountIsRuns ==
    pc = "done" =>
        \A k \in {Runs(channels[1].data)} :
            /\ spikeCount(channels[1].data) = k
            /\ spikeRate = Div(I(k), Div(I(Len(channels[1].data)), I(samplingRate)))

\* C10 witness: two runs, one of them lasting more than one sample.
C10_Witness ==
    /\ pc = "done"
    /\ Runs(channels[1].data) = 2
    /\ Gt(spikeRate, I(0))
    /\ \E mean \in {SignalMean(channels[1].data)} :
       \E var \in {MeanSquare(channels[1].data, mean)} :
       \E i \in 1..(Len(channels[1].data) - 1) :
           /\ AboveThreshold(channels[1].data[i], mean, var)
           /\ AboveThreshold(channels[1].data[i + 1], mean, var)

\* C11: analyzeChannelSpectrum sets deltaTheta to delta power / theta power
\* when both band powers are strictly positive and to 0 in every other case;
\* it is never infinite or NaN.
C11_DeltaThetaGuarded ==
    \A i \in 1..Len(spectralAnalyses) :
        \A delta \in {spectralAnalyses[i].bands.delta.power} :
        \A theta \in {spectralAnalyses[i].bands.theta.power} :
            /\ (Gt(delta, I(0)) /\ Gt(theta, I(0)))
                   => spectralAnalyses[i].deltaTheta = Div(delta, theta)
            /\ ~(Gt(delta, I(0)) /\ Gt(theta, I(0)))
                   => spectralAnalyses[i].deltaTheta = I(0)
            /\ IsFinite(spectralAnalyses[i].deltaTheta)

\* C11 witness: a profile with both band powers positive and a ratio other
\* than 1.
C11_Witness ==
    \E i \in 1..Len(spectralAnalyses) :
        /\ Gt(spectralAnalyses[i].bands.delta.power, I(0))
        /\ Gt(spectralAnalyses[i].bands.theta.power, I(0))
        /\ spectralAnalyses[i].deltaTheta # I(1)
        /\ spectralAnalyses[i].deltaTheta # I(0)

\* C12: approximateEntropy returns 0 whenever the count of matching
\* templates of length m or of length m + 1 is 0; whenever both counts are
\* positive, the denominator phi_m1 * (N - m - 1) is not 0 and the argument
\* of the logarithm is a finite positive number.
C12_EntropyGuard ==
    \A i \in 1..Len(spectralAnalyses) :
        \A N \in {Len(channels[i].data)} :
        \A phi_m \in {countPattern(channels[i].data, 2, Q(2, 10))} :
        \A phi_m1 \in {countPattern(channels[i].data, 3, Q(2, 10))} :
            /\ (phi_m = 0 \/ phi_m1 = 0) => spectralAnalyses[i].complexity = I(0)
            /\ (phi_m > 0 /\ phi_m1 > 0) =>
                   /\ phi_m1 * (N - 2 - 1) # 0
                   /\ IsFinite(Div(I(phi_m * (N - 2)), I(phi_m1 * (N - 2 - 1))))
                   /\ Gt(Div(I(phi_m * (N - 2)), I(phi_m1 * (N - 2 - 1))), I(0))
                   /\ spectralAnalyses[i].complexity =
                          MathLog(Div(I(phi_m * (N - 2)), I(phi_m1 * (N - 2 - 1))))

\* C12 witness: a channel that is not all zero with matches of both
\* lengths.
C12_Witness ==
    /\ Len(spectralAnalyses) = 1
    /\ \E k \in 1..Len(channels[1].data) : channels[1].data[k] # 0
    /\ countPattern(channels[1].data, 2, Q(2, 10)) > 0
    /\ countPattern(channels[1].data, 3, Q(2, 10)) > 0
    /\ spectralAnalyses[1].complexity # I(0)

\* The unordered pairs of distinct channel positions of a recording of n
\* channels, each once.
PairSet(n) == {p \in (1..n) \X (1..n) : p[1] < p[2]}

\* The sum of |correlation| over a set of pairs of channel positions.
RECURSIVE SumAbsCorrelation(_, _)
SumAbsCorrelation(chs, pairs) ==
    IF pairs = {} THEN I(0)
    ELSE LET p == CHOOSE q \in pairs : TRUE
         IN  Add(SumAbsCorrelation(chs, pairs \ {p}),
                 MathAbs(calculateCorrelation(chs[p[1]].data, chs[p[2]].data)))

\* c is the Pearson correlation of x and y over their common prefix:
\* c^2 * var(x) * var(y) = cov(x, y)^2 with the sign of the covariance, where
\* neither is constant there (and the square root is exact in the model);
\* c = 0 where one of them is constant.
IsPearson(c, x, y) ==
    LET n == MinInt(Len(x), Len(y))
        xs == SubSeq(x, 1, n)
        ys == SubSeq(y, 1, n)
        xMean == SignalMean(xs)
        yMean == SignalMean(ys)
        cov == Mean([i \in 1..n |-> Mul(Sub(I(xs[i]), xMean), Sub(I(ys[i]), yMean))])
        vv == Mul(MeanSquare(xs, xMean), MeanSquare(ys, yMean))
    IN  IF n = 0 \/ ~Gt(vv, I(0)) THEN c = I(0)
        ELSE Square(MathSqrt(vv)) = vv =>
                 /\ Mul(Square(c), vv) = Square(cov)
                 /\ Gt(c, I(0)) <=> Gt(cov, I(0))
                 /\ InRange(c, I(-1), I(1))

RECURSIVE SumVariance(_, _)
SumVariance(chs, positions) ==
    IF positions = {} THEN I(0)
    ELSE LET i == CHOOSE k \in positions : TRUE
         IN  Add(SumVariance(chs, positions \ {i}),
                 MeanSquare(chs[i].data, SignalMean(chs[i].data)))

FrontalNames == {"Fp1", "Fp2", "F7", "F3", "Fz", "F4", "F8"}

TemporalNames == {"T7", "T8", "P7", "P8"}

\* C14: calculateConnectivity divides the summed variance of the
\* frontal-named channels present by 7 and of the temporal-named channels
\* present by 4, whatever subset of the names appears; a recording with none
\* of the names gives frontalPower = temporalPower = 0.
C14_RegionPowerDividedByListLength ==
    pc = "risk" =>
        /\ connectivity.frontalPower =
               Div(SumVariance(channels, {i \in 1..Len(channels) :
                                             channels[i].name \in FrontalNames}), I(7))
        /\ connectivity.temporalPower =
               Div(SumVariance(channels, {i \in 1..Len(channels) :
                                             channels[i].name \in TemporalNames}), I(4))
        /\ (\A i \in 1..Len(channels) :
                channels[i].name \notin FrontalNames \cup TemporalNames)
               => /\ connectivity.frontalPower = I(0)
                  /\ connectivity.temporalPower = I(0)

\* C14 witness: two frontal channels and one temporal channel, none of them
\* constant.
C14_Witness ==
    /\ pc = "risk"
    /\ Len(channels) = 3
    /\ Cardinality({i \in 1..3 : channels[i].name \in FrontalNames}) = 2
    /\ Cardinality({i \in 1..3 : channels[i].name \in TemporalNames}) = 1
    /\ connectivity.frontalPower = Q(9, 14)
    /\ connectivity.temporalPower = Q(9, 16)

\* A channel has stdDev > 100 or peakToPeak > 300 or |mean| > 50 (the
\* population standard deviation compared by its square).
OverThresholds(data) ==
    /\ Len(data) > 0
    /\ \E mean \in {Div(SumSeq([k \in 1..Len(data) |-> I(data[k])]), I(Len(data)))} :
       \E sq \in {SumSeq([k \in 1..Len(data) |-> Square(Sub(I(data[k]), mean))])} :
       \E top \in {data[k] : k \in 1..Len(data)} :
       \E bottom \in {data[k] : k \in 1..Len(data)} :
           /\ \A k \in 1..Len(data) : bottom <= data[k] /\ data[k] <= top
           /\ \/ Gt(Div(sq, I(Len(data))), I(100 * 100))
              \/ top - bottom > 300
              \/ Gt(mean, I(50)) \/ Lt(mean, I(-50))

\* C15: detectAnomalies lists a channel's name if and only if the channel
\* has stdDev > 100 or peakToPeak > 300 or |mean| > 50, and lists the
\* anomalous channels in recording order.
C15_AnomaliesByThreshold ==
    pc = "anomalies" =>
        \A listed \in {SelectSeq(channels, LAMBDA c : OverThresholds(c.data))} :
            anomalousChannels = [k \in 1..Len(listed) |-> listed[k].name]

\* C15 witness: a recording whose second channel alone is listed, for its
\* negative mean only.
C15_Witness ==
    /\ pc = "anomalies"
    /\ Len(channels) = 2
    /\ channels[1].name # channels[2].name
    /\ channels[1].data = <<0, 0, 0>>
    /\ channels[2].data = <<-150>>
    /\ anomalousChannels = <<channels[2].name>>

\* C16 as claimed: for a channel with no samples extractEEGFeatures returns
\* 0 for mean, variance, stdDev, peakToPeak and zero crossings.
C16_EmptyChannelFeaturesAreZero ==
    pc = "features" =>
        \A i \in 1..Len(channels) :
            (/\ channels[i].data = <<>>
             /\ \A j \in (i + 1)..Len(channels) : channels[j].name # channels[i].name)
            => \A f \in FeatureNames : features[<<channels[i].name, f>>] = I(0)

\* The file is parsed as delimited text.
AsText ==
    \E n \in {<<"a", ".", "c", "s", "v">>, <<"a", ".", "C", "S", "V">>,
              <<"a", ".", "t", "x", "t">>} : file.name = n

\* The number a cell stands for; the cells x and "" stand for none.
CellValue(cell) ==
    CASE cell = <<"1">> -> I(1)
      [] cell = <<"7">> -> I(7)
      [] cell = <<" ", "-", "2", ".", "5">> -> Q(-5, 2)
      [] cell = <<"1", "x">> -> I(1)
      [] OTHER -> NaN

\* The samples of column k of the rows from row i on, the rows of fewer than
\* n cells left out and the cells that stand for no number left out.
RECURSIVE ColumnSamples(_, _, _, _)
ColumnSamples(table, i, k, n) ==
    IF i > Len(table) THEN <<>>
    ELSE (IF Len(table[i]) >= n /\ k <= Len(table[i]) /\ ~IsNaN(CellValue(table[i][k]))
          THEN <<CellValue(table[i][k])>> ELSE <<>>)
         \o ColumnSamples(table, i + 1, k, n)

PlainTable(table) ==
    /\ Len(table) >= 2
    /\ \A k \in 1..Len(table[1]) :
           table[1][k] \in {<<"F", "p", "1">>, <<"T", "7">>, <<"C", "z">>}
    /\ \A i \in 2..Len(table) :
           /\ Len(table[i]) = Len(table[1])
           /\ \A k \in 1..Len(table[i]) : table[i][k] \in {<<"1">>, <<"7">>}

\* C18 as claimed: for a CSV without a timestamp column parseCSV returns one
\* channel per header column, in header order, the first column included.
C18_PlainTableAllColumns ==
    (pc = "parsed" /\ AsText /\ PlainTable(file.written)) =>
        /\ parsed.status = "ok"
        /\ Len(parsed.channels) = Len(file.written[1])
        /\ \A k \in 1..Len(parsed.channels) :
               /\ parsed.channels[k].name = file.written[1][k]
               /\ parsed.channels[k].data =
                      ColumnSamples(file.written, 2, k, Len(file.written[1]))

\* The extension of a file name: what follows its last point, the whole
\* name when it has none, without regard to case.
ExtensionOf(name) ==
    LET points == {i \in 1..Len(name) : name[i] = "."}
    IN  toLowerCase(IF points = {} THEN name
                    ELSE SubSeq(name, (CHOOSE i \in points : \A j \in points : i >= j) + 1,
                                Len(name)))

\* The lines of a table that are left when the blank rows at its end are
\* dropped.
RECURSIVE TextLines(_)
TextLines(table) ==
    IF table = <<>> THEN 0
    ELSE IF \A k \in 1..Len(table[Len(table)]) : Trim(table[Len(table)][k]) = <<>>
         THEN TextLines(SubSeq(table, 1, Len(table) - 1))
    ELSE Len(table)

RationalLengths == {1, 2, 3, 4}

\* cos(2 * pi * m / N) for N in RationalLengths (and 6).
CosTurn(m, N) ==
    LET r == m % N
    IN  IF r = 0 THEN I(1)
        ELSE IF 2 * r = N THEN I(-1)
        ELSE IF 4 * r = N \/ 4 * r = 3 * N THEN I(0)
        ELSE IF 3 * r = N \/ 3 * r = 2 * N THEN Q(-1, 2)
        ELSE Q(1, 2)

\* The Hann-weighted segment of a window of samples.
Windowed(window) ==
    [k \in 1..Len(window) |-> Mul(I(window[k]), Hann(k - 1, Len(window)))]

\* The squared magnitude of the i-th Fourier coefficient of w,
\* |sum_j w[j] e^(-2 pi sqrt(-1) i j / N)|^2
\*     = sum_j sum_k w[j] w[k] cos(2 pi i (j - k) / N).
FourierPower(w, i) ==
    LET N == Len(w)
    IN  SumSeq([t \in 1..(N * N) |->
                   LET j == (t - 1) \div N
                       k == (t - 1) % N
                   IN  Mul(Mul(w[j + 1], w[k + 1]), CosTurn(i * (j - k) + N * N, N))])

\* C21 as claimed: the value calculatePSD accumulates at bin i for a window
\* is the squared magnitude of the i-th Fourier coefficient of the
\* Hann-weighted segment (stated after the first window, for the window
\* lengths whose transform is rational).
C21_BinIsFourierPower ==
    (/\ pc = "psd"
     /\ windowCount = 1
     /\ Len(channels[ch].data) \in RationalLengths)
    => \A w \in {Windowed(Slice(channels[ch].data, I(0)))} :
           \A i \in 0..(Len(w) - 1) :
               psd[Div(I(i * samplingRate), I(Len(w)))] = FourierPower(w, i)

\* C22: fft returns for every signal, with exactly as many values as the
\* signal has samples; for an odd number N > 1 of samples they are the
\* first N values of the transform of the signal followed by one zero.
C22_FftLengthAndPadding ==
    pc = "transformed" =>
        /\ Len(fftOut) = Len(fftSignal)
        /\ (Len(fftSignal) > 1 /\ Len(fftSignal) % 2 = 1) =>
               \A padded \in {fft(Append(fftSignal, I(0)))} :
                   /\ Len(padded) = Len(fftSignal) + 1
                   /\ \A n \in 1..Len(fftSignal) : fftOut[n] = padded[n]

\* C22 witness: fft has returned five values for a signal of five samples,
\* not all of them samples of the signal.
C22_Witness ==
    /\ pc = "transformed"
    /\ Len(fftSignal) = 5
    /\ Len(fftOut) = 5
    /\ \E n \in 1..5 : fftOut[n] # fftSignal[n] /\ fftOut[n][2] > 1

\* The ids of the existing projects whose owner is the user u.
OwnedProjects(u) == {p \in DOMAIN projects : projects[p].owner = u}

ElementsOf(array) == {array[i] : i \in 1..Len(array)}

\* C29: after any sequence of createProject and deleteProject calls by any
\* callers every user's projectIds
\* holds exactly the ids of the existing projects the user owns, each once;
\* and a call that fails changes neither users nor projects.
C29_ProjectIdsMatchOwnership ==
    /\ [](\A u \in DOMAIN users :
             \A ids \in {ProjectIdsOf(users[u])} :
                 /\ Cardinality(ElementsOf(ids)) = Len(ids)
                 /\ ElementsOf(ids) = OwnedProjects(u))
    /\ [][call'.outcome # "ok" => (users' = users /\ projects' = projects)]_vars

\* C29 witness: a user who created two projects has deleted the first and
\* still owns the second.
C29_Witness ==
    /\ call = Called("deleteProject", "alice", "ok")
    /\ \E u \in DOMAIN users :
           /\ users[u].tokenIdentifier = "alice"
           /\ Len(ProjectIdsOf(users[u])) = 1
           /\ ProjectIdsOf(users[u])[1] = nextId - 1
           /\ nextId - 1 \in DOMAIN projects
           /\ nextId - 2 \notin DOMAIN projects

\* The caller of the step owns the project p: the caller is authenticated
\* and the profile with the caller's token is the owner of p.
CallerOwns(p) ==
    /\ call'.identity # Null
    /\ p \in DOMAIN projects
    /\ \E u \in DOMAIN users :
           /\ users[u].tokenIdentifier = call'.identity
           /\ projects[p].owner = u

\* C30 as claimed: a step that creates, modifies or deletes an eegAnalyses
\* record is a call by an authenticated caller who owns the record's
\* project.
C30_OnlyOwnerWritesAnalyses ==
    [][\A a \in DOMAIN eegAnalyses \cup DOMAIN eegAnalyses' :
           IF a \notin DOMAIN eegAnalyses THEN CallerOwns(eegAnalyses'[a].projectId)
           ELSE IF a \notin DOMAIN eegAnalyses' THEN CallerOwns(eegAnalyses[a].projectId)
           ELSE eegAnalyses'[a] # eegAnalyses[a] => CallerOwns(eegAnalyses[a].projectId)]_vars

\* The fields of a stored analysis that hold the results r.
HoldsResults(doc, r) ==
    /\ doc.riskScore = r.riskScore
    /\ doc.riskLevel = r.riskLevel
    /\ doc.abnormalSegments = r.abnormalSegments
    /\ doc.confidence = r.confidence

\* C23 as claimed: when analyzeEEGWithAI has finished for an analysis that
\* exists, it has returned, the record's status is "completed", and without
\* an API key the record holds the rule-based fallback results.
C23_EndsCompleted ==
    (pc \in {"returned", "failed"} /\ aiRun.analysisId \in DOMAIN eegAnalyses)
    => /\ pc = "returned"
       /\ eegAnalyses[aiRun.analysisId].status = "completed"
       /\ aiRun.geminiApiKey = Null
          => HoldsResults(eegAnalyses[aiRun.analysisId],
                          performAdvancedRuleBasedAnalysis(aiRun.advancedMetrics))

\* The sum over the first count windows of 512 samples, taken every 256
\* samples from the first, of the power of bin i.
WindowSum(data, i, count) ==
    SumSeq([k \in 1..count |-> Magnitude(SubSeq(data, 256 * (k - 1) + 1,
                                                256 * (k - 1) + 512), i)])

\* C24: for a signal of N >= 512 samples calculatePSD processes exactly
\* floor((N - 512) / 256) + 1 windows, at the offsets 0, 256, 512, ..., each
\* inside the signal, and every bin it returns is the sum accumulated over
\* these windows divided by their number.
C24_WelchWindows ==
    \A data \in {IF channels = <<>> THEN <<>> ELSE channels[1].data} :
        Len(data) >= 512 =>
            \A count \in {(Len(data) - 512) \div 256 + 1} :
                /\ pc = "psd" =>
                       /\ pos = I(256 * windowCount)
                       /\ windowCount <= count
                       /\ windowCount >= 1 => 256 * (windowCount - 1) + 512 <= Len(data)
                       /\ WindowFits(data, pos) <=> windowCount < count
                /\ pc = "averaged" =>
                       /\ windowCount = count
                       /\ DOMAIN psd = {Div(I(i * samplingRate), I(512)) : i \in 0..511}
                       /\ \A i \in 0..511 :
                              psd[Div(I(i * samplingRate), I(512))]
                                  = Div(WindowSum(data, i, count), I(count))

\* C24 witness: calculatePSD has returned the average of two windows that
\* differ, for a signal of 1023 samples.
C24_Witness ==
    /\ pc = "averaged"
    /\ Len(channels[1].data) = 1023
    /\ windowCount = 2
    /\ channels[1].data[1] = 2
    /\ channels[1].data[1023] = -1
    /\ psd[I(50)] # I(0)
    /\ psd[I(50)] # Magnitude(SubSeq(channels[1].data, 1, 512), 100)

\* The limits in Hz of the five bands of analyzeChannelSpectrum.
BandLimits ==
    [delta |-> <<Q(1, 2), I(4)>>, theta |-> <<I(4), I(8)>>, alpha |-> <<I(8), I(12)>>,
     beta |-> <<I(12), I(30)>>, gamma |-> <<I(30), I(50)>>]

\* The bin number i of a spectrum of n bins at the sampling rate lies in the
\* band: low <= i * rate / n <= high, without division.
BinInBand(i, n, rate, limits) ==
    /\ limits[1][1] * n <= i * rate * limits[1][2]
    /\ i * rate * limits[2][2] <= limits[2][1] * n

\* The arithmetic mean of the values of the bins of map that lie in the
\* band, 0 for none.
BandMean(map, n, rate, limits) ==
    LET bins == {i \in 0..(n - 1) : BinInBand(i, n, rate, limits)}
        value(i) == IF i \in bins THEN map[Div(I(i * rate), I(n))] ELSE I(0)
    IN  IF bins = {} THEN I(0)
        ELSE Div(SumSeq([k \in 1..n |-> value(k - 1)]), I(Cardinality(bins)))

\* C25: the power analyzeChannelSpectrum reports for a band is the
\* arithmetic mean of the values calculatePSD returned for the bins whose
\* frequency lies in the band, both limits included (a bin at 4, 8, 12 or
\* 30 Hz counts in both bands that meet there), and 0 when there is none.
C25_BandPowerIsInclusiveMean ==
    [][(pc = "psd" /\ Len(spectralAnalyses') = Len(spectralAnalyses) + 1)
       => \A n \in {WindowSize(channels[ch].data)} :
              \A b \in DOMAIN BandLimits :
                  spectralAnalyses'[Len(spectralAnalyses')].bands[b].power
                      = BandMean(Average(psd, windowCount), n, samplingRate,
                                 BandLimits[b])]_vars

\* C25 witness: a profile of five bins at 0, 4, 8, 12 and 16 Hz with power at
\* 4 Hz, which is all of the delta band and half of the theta band.
C25_Witness ==
    /\ Len(channels) = 1
    /\ Len(channels[1].data) = 5
    /\ samplingRate = 20
    /\ Len(spectralAnalyses) = 1
    /\ Gt(spectralAnalyses[1].bands.delta.power, I(0))
    /\ Gt(spectralAnalyses[1].bands.theta.power, spectralAnalyses[1].bands.delta.power)
    /\ Gt(spectralAnalyses[1].bands.beta.power, I(0))

\* The number of pairs i < j of templates of len samples of the signal in
\* which no two samples at the same place differ by more than r times the
\* standard deviation of the signal about its mean.
MatchesWithinStd(signal, len, r) ==
    \* the variance about the mean, bound once
    CHOOSE n \in {Cardinality({pr \in (0..(Len(signal) - len)) \X (0..(Len(signal) - len)) :
                                 /\ pr[1] < pr[2]
                                 /\ \A k \in 1..len :
                                        ~GtRoot(MathAbs(I(signal[pr[1] + k] - signal[pr[2] + k])),
                                                r, var)}) :
                     var \in {MeanSquare(signal, SignalMean(signal))}} : TRUE

\* C26 as claimed: the complexity analyzeChannelSpectrum reports is the
\* approximate entropy for the tolerance 0.2 times the standard deviation
\* of the signal about its mean, two templates matching iff no pointwise
\* difference exceeds the tolerance.
C26_ToleranceIsStdAboutMean ==
    \A i \in 1..Len(spectralAnalyses) :
        \A signal \in {channels[i].data} :
            spectralAnalyses[i].complexity
                = EntropyOf(Len(signal), 2, MatchesWithinStd(signal, 2, Q(2, 10)),
                            MatchesWithinStd(signal, 3, Q(2, 10)))


\* C27: in approximateEntropy the count of matching templates of length
\* m + 1 never exceeds the count of matching templates of length m, and
\* whenever both counts are positive (the guard does not apply) the result
\* is strictly positive.
C27_EntropyPositive ==
    \A i \in 1..Len(spectralAnalyses) :
        \A phi_m \in {countPattern(channels[i].data, 2, Q(2, 10))} :
        \A phi_m1 \in {countPattern(channels[i].data, 3, Q(2, 10))} :
            /\ phi_m1 <= phi_m
            /\ (phi_m > 0 /\ phi_m1 > 0) =>
                   /\ IsFinite(spectralAnalyses[i].complexity)
                   /\ Gt(spectralAnalyses[i].complexity, I(0))

\* C27 witness: a profile of a channel with fewer matches of length m + 1
\* than of length m, both positive, and a positive complexity.
C27_Witness ==
    \E i \in 1..Len(spectralAnalyses) :
        /\ countPattern(channels[i].data, 3, Q(2, 10)) > 0
        /\ countPattern(channels[i].data, 3, Q(2, 10))
               < countPattern(channels[i].data, 2, Q(2, 10))
        /\ Gt(spectralAnalyses[i].complexity, I(0))


\* The numbers of column k in the rows of the set kept, from row i on, in
\* the order of the rows (NaN where the row has no number there).
RECURSIVE ColumnOfRows(_, _, _, _)
ColumnOfRows(table, kept, i, k) ==
    IF i > Len(table) THEN <<>>
    ELSE (IF i \in kept
          THEN <<IF k <= Len(table[i]) THEN CellValue(table[i][k]) ELSE NaN>>
          ELSE <<>>)
         \o ColumnOfRows(table, kept, i + 1, k)

\* C28 as claimed: after parseCSV all returned channels have the same
\* number of samples and sample i of every channel comes from the same
\* data row: there is one set of data rows whose cells, column by column,
\* are the data of the channels.
C28_ChannelsAligned ==
    (pc = "parsed" /\ AsText /\ parsed.status = "ok") =>
        \A n \in {Len(parsed.channels)} :
            /\ \A j \in 1..n : Len(parsed.channels[j].data) = Len(parsed.channels[1].data)
            /\ \E kept \in SUBSET (2..Len(file.written)) :
                   \A j \in 1..n :
                       parsed.channels[j].data =
                           ColumnOfRows(file.written, kept, 2, j + Len(file.written[1]) - n)

===========================================================================
